---- MODULE Spec2Model ----
(***************************************************************************)
(* Fiscal Compass: transactions, category budgets, the budget progress     *)
(* cards and the payment simulation.                                        *)
(*                                                                          *)
(* Time.  A JavaScript Date is an instant.  Instants are counted in whole   *)
(* hours since 2024-01-01T00:00Z; the last hour of a day stands for         *)
(* 23:59:59.999 (every instant compared with it is a whole hour).  A        *)
(* calendar day is counted in days since 2024-01-01, and a 'yyyy-MM-dd'     *)
(* string is represented by the calendar day it names.  tz is the offset    *)
(* of local time from UTC in hours.                                         *)
(*                                                                          *)
(* Money.  Amounts and limits are integers (minor units); floating point    *)
(* rounding error of the JavaScript numbers is not modelled.                *)
(***************************************************************************)
EXTENDS Integers, Sequences, FiniteSets, TLC

VARIABLES
    tz,            \* environment: local time = UTC + tz hours
    now,           \* environment: the system clock, read by new Date()
    transactions,  \* useLocalStorage('fiscal-compass-transactions')
    budgets,       \* useLocalStorage('fiscal-compass-budgets')
    editingBudget, \* BudgetsPage: useState<Budget | null>
    toast,         \* useToast: the toast raised by the last handler
    logged,        \* console.log of the last handler: <<remaining budget>>, or <<>>
    pctArgs,       \* calculatePercentage: the arguments of the last call
    pctCard,       \* the budget card rendered from the last call
    goals,         \* useLocalStorage('fiscal-compass-goals')
    editingGoal,   \* FinancialGoalsPage: useState<Goal | null>
    storage,       \* window.localStorage: key -> item
    formErrors,    \* react-hook-form: the fields the resolver rejected at the last submit
    budgetDetails, \* BudgetsPage (cloud): useState<BudgetWithSpent[]>
    fetchPending,  \* BudgetsPage (cloud): a fetchUserBudgetsAndDetails is in flight
    processing,    \* BudgetsPage (cloud): the write in flight while isProcessing
    hooks,         \* useLocalStorage: instance -> its React state and the value it rendered
    spending,      \* SpendingPage (cloud): transactions, isLoading, requests in flight
    auth,          \* useAuth: currentUser and loading
    pathname,      \* usePathname
    dashboard      \* DashboardPage: transactions, budgets and isLoading

\* the state of the goals page; the state of the cloud budgets page
goalVars == <<goals, editingGoal>>
cloudVars == <<budgetDetails, fetchPending>>

\* the hook instances, the cloud spending page, the layout and the dashboard
pageVars == <<processing, hooks, spending, auth, pathname, dashboard>>

vars == <<tz, now, transactions, budgets, editingBudget, toast, logged, pctArgs, pctCard,
          goals, editingGoal, storage, formErrors, budgetDetails, fetchPending,
          processing, hooks, spending, auth, pathname, dashboard>>

None == "none"

\* null, where a Budget is expected
NoBudget == [id |-> 0, category |-> "", limit |-> 0, period |-> ""]

\* null, where a Goal is expected
NoGoal == [id |-> 0, targetAmount |-> 0, currentAmount |-> 0]

-----------------------------------------------------------------------------
(* Bounds *)

MaxTx == 2
MaxBudgets == 1
MaxMoney == 210

-----------------------------------------------------------------------------
(* The calendar *)

Years == 2023 .. 2025

IsLeap(y) == (y % 4 = 0 /\ y % 100 # 0) \/ y % 400 = 0

DaysInYear(y) == IF IsLeap(y) THEN 366 ELSE 365

DaysInMonth(y, m) ==
    IF m = 2 THEN (IF IsLeap(y) THEN 29 ELSE 28)
    ELSE IF m \in {4, 6, 9, 11} THEN 30 ELSE 31

RECURSIVE YearStart(_)
\* the day number of January 1 of year y
YearStart(y) ==
    IF y = 2024 THEN 0
    ELSE IF y > 2024 THEN YearStart(y - 1) + DaysInYear(y - 1)
    ELSE YearStart(y + 1) - DaysInYear(y)

RECURSIVE MonthStart(_, _)
\* the day number of the first day of month m (1..12) of year y
MonthStart(y, m) ==
    IF m = 1 THEN YearStart(y) ELSE MonthStart(y, m - 1) + DaysInMonth(y, m - 1)

\* the day number of the calendar date y-m-d
Day(y, m, d) == MonthStart(y, m) + d - 1

YearOf(day) == CHOOSE y \in Years : YearStart(y) <= day /\ day < YearStart(y + 1)

MonthOf(day) ==
    LET y == YearOf(day)
    IN  CHOOSE m \in 1 .. 12 :
            MonthStart(y, m) <= day /\ day < MonthStart(y, m) + DaysInMonth(y, m)

\* Date.prototype.getDay of a calendar day: 0 = Sunday (2024-01-01 is a Monday)
WeekdayOf(day) == (day + 1) % 7

-----------------------------------------------------------------------------
(* JavaScript Date and date-fns *)

\* the calendar day of instant t in local time
LocalDay(t, z) == (t + z) \div 24

\* local midnight, and the last instant, of a calendar day
LocalMidnight(day, z) == 24 * day - z
LocalEndOfDay(day, z) == 24 * day - z + 23

\* a string that is not a date, where a 'yyyy-MM-dd' string (a day) is expected
InvalidDateString == 0 - 1000000

\* the time value of Invalid Date
NaN == 0 - 100000000

\* new Date('yyyy-MM-dd'): a date-only string is read as UTC midnight; Invalid Date
\* for a string that is not a date
NewDateFromString(s) == IF s = InvalidDateString THEN NaN ELSE 24 * s

\* date-fns parseISO('yyyy-MM-dd'): a date-only string is read as local midnight
parseISO(s, z) == IF s = InvalidDateString THEN NaN ELSE LocalMidnight(s, z)

\* date-fns format(date, 'yyyy-MM-dd'): the local calendar date of the instant
formatYMD(t, z) == LocalDay(t, z)

\* new Date(year, monthIndex, day): local midnight; monthIndex is 0-based
NewDateYMD(y, monthIndex, d, z) == LocalMidnight(Day(y, monthIndex + 1, d), z)

getYear(t, z) == IF t = NaN THEN NaN ELSE YearOf(LocalDay(t, z))

startOfMonth(t, z) ==
    LET day == LocalDay(t, z)
    IN  LocalMidnight(MonthStart(YearOf(day), MonthOf(day)), z)

endOfMonth(t, z) ==
    LET day == LocalDay(t, z)
        y == YearOf(day)
        m == MonthOf(day)
    IN  LocalEndOfDay(MonthStart(y, m) + DaysInMonth(y, m) - 1, z)

\* date-fns startOfWeek / endOfWeek; weekStartsOn: 0 = Sunday (the default), 1 = Monday
startOfWeek(t, weekStartsOn, z) ==
    LET day == LocalDay(t, z)
    IN  LocalMidnight(day - ((WeekdayOf(day) - weekStartsOn) % 7), z)

endOfWeek(t, weekStartsOn, z) ==
    LET day == LocalDay(t, z)
    IN  LocalEndOfDay(day - ((WeekdayOf(day) - weekStartsOn) % 7) + 6, z)

\* as isWithinInterval, with Invalid Date taken to lie in every interval
isWithinInterval_InvalidInside(t, start, end) == t = NaN \/ (start <= t /\ t <= end)

\* time >= startTime && time <= endTime: false for the NaN of Invalid Date
isWithinInterval(t, start, end) == t # NaN /\ start <= t /\ t <= end

-----------------------------------------------------------------------------
(* lib/utils *)

\* Math.round: the nearest integer, a tie going up; num / den with den > 0
MathRound(num, den) == (2 * num + den) \div (2 * den)

\* as calculatePercentage, with Math.floor for Math.round
calculatePercentage_Floor(current, total) ==
    IF total = 0 THEN 0 ELSE (current * 100) \div total

calculatePercentage(current, total) ==
    IF total = 0 THEN 0 ELSE MathRound(current * 100, total)

\* generateId: an id no record in use carries
generateId(used) == CHOOSE i \in 1 .. Cardinality(used) + 1 : i \notin used

-----------------------------------------------------------------------------
(* Form schemas (zod) *)

TransactionTypes == {"expense", "income"}
Periods == {"monthly", "weekly", "yearly"}

transactionSchema(amount, type, category) ==
    amount > 0 /\ type \in TransactionTypes /\ category # ""

budgetSchema(category, limit, period) ==
    category # "" /\ limit > 0 /\ period \in Periods

paymentSchema(amount, category) == amount > 0 /\ category # ""

-----------------------------------------------------------------------------
(* Array helpers *)

RECURSIVE SumAmounts(_)
\* reduce((sum, t) => sum + t.amount, 0)
SumAmounts(s) == IF s = <<>> THEN 0 ELSE s[1].amount + SumAmounts(Tail(s))

RECURSIVE SumLimits(_)
SumLimits(s) == IF s = <<>> THEN 0 ELSE s[1].limit + SumLimits(Tail(s))

\* x is placed before the first element of the sorted s that is not later than x
InsertByDateDesc(x, s) ==
    LET later == {i \in 1 .. Len(s) :
                     /\ NewDateFromString(s[i].date) # NaN
                     /\ NewDateFromString(x.date) # NaN
                     /\ NewDateFromString(s[i].date) > NewDateFromString(x.date)}
        k == Cardinality({i \in 1 .. Len(s) : \A j \in 1 .. i : j \in later})
    IN  SubSeq(s, 1, k) \o <<x>> \o SubSeq(s, k + 1, Len(s))

\* as SortByDateDesc, leaving the list in the order it was given
SortByDateDesc_AsGiven(s) == s

RECURSIVE SortByDateDesc(_)
\* sort((a, b) => new Date(b.date).getTime() - new Date(a.date).getTime()): stable
SortByDateDesc(s) ==
    IF s = <<>> THEN <<>> ELSE InsertByDateDesc(Head(s), SortByDateDesc(Tail(s)))

-----------------------------------------------------------------------------
(* Spend aggregation *)

\* transactions.filter(category, expense, isWithinInterval(new Date(t.date), ...)).reduce(sum)
SpendAggregator_NoTypeFilter(txs, category, start, end) ==
    LET match(t) == /\ t.category = category
                    /\ isWithinInterval(NewDateFromString(t.date), start, end)
    IN  SumAmounts(SelectSeq(txs, match))

SpendAggregator(txs, category, start, end) ==
    LET match(t) == /\ t.category = category
                    /\ t.type = "expense"
                    /\ isWithinInterval(NewDateFromString(t.date), start, end)
    IN  SumAmounts(SelectSeq(txs, match))

\* BudgetsPage (local storage): calculateSpentAmount(budget), with new Date() = t
calculateSpentAmount(txs, budget, t, z) ==
    LET isRelevant(x) == x.category = budget.category /\ x.type = "expense"
        relevantTransactions == SelectSeq(txs, isRelevant)
    IN  IF budget.period = "monthly" THEN
            LET inMonth(x) == isWithinInterval(NewDateFromString(x.date),
                                               startOfMonth(t, z), endOfMonth(t, z))
            IN  SumAmounts(SelectSeq(relevantTransactions, inMonth))
        ELSE IF budget.period = "weekly" THEN
            \* now.setDate(...) moves now itself: first to Sunday, then to Saturday
            LET weekStart == t - 24 * WeekdayOf(LocalDay(t, z))
                weekEnd == weekStart + 24 * (6 - WeekdayOf(LocalDay(weekStart, z)))
                inSpan(x) == isWithinInterval(NewDateFromString(x.date),
                                              startOfMonth(weekStart, z), endOfMonth(weekEnd, z))
            IN  SumAmounts(SelectSeq(relevantTransactions, inSpan))
        ELSE IF budget.period = "yearly" THEN
            LET inYear(x) == getYear(NewDateFromString(x.date), z) = getYear(t, z)
            IN  SumAmounts(SelectSeq(relevantTransactions, inYear))
        ELSE SumAmounts(relevantTransactions)

\* firestoreService: addTransaction stores Timestamp.fromDate(new Date(date));
\* getTransactionsForPeriod queries category, expense, startDate <= date <= endDate
getTransactionsForPeriod(txs, category, startDate, endDate) ==
    LET match(x) == /\ x.category = category
                    /\ x.type = "expense"
                    /\ NewDateFromString(x.date) >= startDate
                    /\ NewDateFromString(x.date) <= endDate
    IN  SelectSeq(txs, match)

\* BudgetsPage (cloud): the [startDate, endDate] fetchUserBudgetsAndDetails queries
CloudPeriod(period, today, z) ==
    IF period = "monthly" THEN <<startOfMonth(today, z), endOfMonth(today, z)>>
    ELSE IF period = "weekly" THEN <<startOfWeek(today, 0, z), endOfWeek(today, 0, z)>>
    ELSE <<NewDateYMD(getYear(today, z), 0, 1, z), NewDateYMD(getYear(today, z), 11, 31, z)>>

CloudSpentAmount(txs, budget, today, z) ==
    LET p == CloudPeriod(budget.period, today, z)
    IN  SumAmounts(getTransactionsForPeriod(txs, budget.category, p[1], p[2]))

\* as currentMonthBudget, with the limits of the budgets of every period added up
currentMonthBudget_AllPeriods(txs, bs, today, z) ==
    LET inMonth(x) == /\ isWithinInterval(parseISO(x.date, z),
                                          startOfMonth(today, z), endOfMonth(today, z))
                      /\ x.type = "expense"
        totalBudgetLimit == SumLimits(bs)
        totalSpent == SumAmounts(SelectSeq(txs, inMonth))
    IN  [spent |-> totalSpent,
         limit |-> totalBudgetLimit,
         progress |-> IF totalBudgetLimit > 0
                      THEN calculatePercentage(totalSpent, totalBudgetLimit) ELSE 0]

\* DashboardPage: currentMonthBudget, with new Date() = today
currentMonthBudget(txs, bs, today, z) ==
    LET inMonth(x) == /\ isWithinInterval(parseISO(x.date, z),
                                          startOfMonth(today, z), endOfMonth(today, z))
                      /\ x.type = "expense"
        isMonthly(b) == b.period = "monthly"
        totalBudgetLimit == SumLimits(SelectSeq(bs, isMonthly))
        totalSpent == SumAmounts(SelectSeq(txs, inMonth))
    IN  [spent |-> totalSpent,
         limit |-> totalBudgetLimit,
         progress |-> IF totalBudgetLimit > 0
                      THEN calculatePercentage(totalSpent, totalBudgetLimit) ELSE 0]

\* DashboardPage: the week recentSpendingAlert filters by (Monday first)
DashboardWeek(today, z) == <<startOfWeek(today, 1, z), endOfWeek(today, 1, z)>>

\* BudgetsPage (local storage): the interval the weekly branch filters by
LocalStorageWeek(t, z) ==
    LET weekStart == t - 24 * WeekdayOf(LocalDay(t, z))
        weekEnd == weekStart + 24 * (6 - WeekdayOf(LocalDay(weekStart, z)))
    IN  <<startOfMonth(weekStart, z), endOfMonth(weekEnd, z)>>

-----------------------------------------------------------------------------
(* Budget cards *)

\* the card of one budget: progress bar value, over-budget message and its amount
RenderBudgetCard_Clamped(spentAmount, limit) ==
    [spentAmount |-> spentAmount,
     limit |-> limit,
     progress |-> IF calculatePercentage(spentAmount, limit) > 100 THEN 100
                  ELSE calculatePercentage(spentAmount, limit),
     overBudget |-> spentAmount > limit,
     overBy |-> IF spentAmount > limit THEN spentAmount - limit ELSE 0]

RenderBudgetCard(spentAmount, limit) ==
    [spentAmount |-> spentAmount,
     limit |-> limit,
     progress |-> calculatePercentage(spentAmount, limit),
     overBudget |-> spentAmount > limit,
     overBy |-> IF spentAmount > limit THEN spentAmount - limit ELSE 0]

\* no card rendered yet
NoCard == [spentAmount |-> 0, limit |-> 0, progress |-> 0 - 1, overBudget |-> FALSE, overBy |-> 0]

\* BudgetsPage (local storage): budgets.map(budget => card)
LocalBudgetCards ==
    [i \in 1 .. Len(budgets) |->
        RenderBudgetCard(calculateSpentAmount(transactions, budgets[i], now, tz),
                         budgets[i].limit)]

\* BudgetsPage (cloud): budgetDetails as fetchUserBudgetsAndDetails computes them
CloudBudgetCards ==
    [i \in 1 .. Len(budgets) |->
        RenderBudgetCard(CloudSpentAmount(transactions, budgets[i], now, tz),
                         budgets[i].limit)]

-----------------------------------------------------------------------------
(* hooks/use-local-storage *)

TransactionsKey == "fiscal-compass-transactions"
BudgetsKey == "fiscal-compass-budgets"
GoalsKey == "fiscal-compass-goals"
StorageKeys == {TransactionsKey, BudgetsKey, GoalsKey}

\* undefined, where the deadline of a goal (a day) is expected
Undefined == 0 - 100000

\* JSON.stringify of an array of objects: a key whose value is undefined is left out
JSONstringify(value) ==
    [i \in 1 .. Len(value) |->
        LET o == value[i]
            keys == {k \in DOMAIN o : ~(k = "deadline" /\ o[k] = Undefined)}
        IN  [k \in keys |-> o[k]]]

\* JSON.parse of such a text: the objects with the keys the text holds
JSONparse(text) == [i \in 1 .. Len(text) |-> text[i]]

\* localStorage.getItem(key): null, or the text stored
NoItem == [present |-> FALSE, text |-> <<>>]
Item(text) == [present |-> TRUE, text |-> text]

\* useState initializer of the hook: item ? deserializer(item) : initialValue, initialValue = []
ReadStorage(key) == IF storage[key].present THEN JSONparse(storage[key].text) ELSE <<>>

\* setValue(newValue): what the hook holds afterwards.  setStoredValue(newValue) is
\* followed by the storage event the hook dispatches to its own window, whose listener
\* sets deserializer(event.newValue)
setValue(newValue) == JSONparse(JSONstringify(newValue))

\* as setItem, with nothing written for an empty collection
setItem_SkipsEmpty(key, newValue) ==
    IF newValue = <<>> THEN storage
    ELSE [storage EXCEPT ![key] = Item(JSONstringify(newValue))]

\* setValue(newValue): localStorage.setItem(key, serializer(newValue))
setItem(key, newValue) == [storage EXCEPT ![key] = Item(JSONstringify(newValue))]

-----------------------------------------------------------------------------
(* Handlers *)

Toast(title, variant, amount, category, exceedAmount) ==
    [title |-> title, variant |-> variant, amount |-> amount, category |-> category,
     exceedBy |-> exceedAmount]

NoToast == Toast(None, None, 0, None, 0)

TxIds == {transactions[i].id : i \in 1 .. Len(transactions)}

BudgetIds ==
    {budgets[i].id : i \in 1 .. Len(budgets)}
        \cup (IF editingBudget = NoBudget THEN {} ELSE {editingBudget.id})

\* as SubmitTransaction, with the amount of an income added to every goal's currentAmount
SubmitTransaction_FundsGoals(amount, type, category, pickedDay) ==
    /\ transactionSchema(amount, type, category)
    /\ Len(transactions) < MaxTx
    /\ LET newTransaction ==
               [id |-> generateId(TxIds),
                amount |-> amount,
                type |-> type,
                category |-> category,
                date |-> formatYMD(LocalMidnight(pickedDay, tz), tz)]
           newValue == SortByDateDesc(<<newTransaction>> \o transactions)
           newGoals == [i \in 1 .. Len(goals) |->
                           IF type = "income"
                           THEN [goals[i] EXCEPT !.currentAmount = @ + amount]
                           ELSE goals[i]]
       IN  /\ transactions' = setValue(newValue)
           /\ goals' = setValue(newGoals)
           /\ storage' = [storage EXCEPT ![TransactionsKey] = Item(JSONstringify(newValue)),
                                         ![GoalsKey] = Item(JSONstringify(newGoals))]
    /\ toast' = Toast("Transaction Added", "default", 0, None, 0)
    /\ logged' = <<>>
    /\ formErrors' = {}
    /\ UNCHANGED <<tz, now, budgets, editingBudget, pctArgs, pctCard, editingGoal, cloudVars, pageVars>>

\* SpendingPage (local storage): onSubmit; the date picker gives local midnight of pickedDay
SubmitTransaction(amount, type, category, pickedDay) ==
    /\ transactionSchema(amount, type, category)
    /\ Len(transactions) < MaxTx
    /\ LET newTransaction ==
               [id |-> generateId(TxIds),
                amount |-> amount,
                type |-> type,
                category |-> category,
                date |-> formatYMD(LocalMidnight(pickedDay, tz), tz)]
           newValue == SortByDateDesc(<<newTransaction>> \o transactions)
       IN  /\ transactions' = setValue(newValue)
           /\ storage' = setItem(TransactionsKey, newValue)
    /\ toast' = Toast("Transaction Added", "default", 0, None, 0)
    /\ logged' = <<>>
    /\ formErrors' = {}
    /\ UNCHANGED <<tz, now, budgets, editingBudget, pctArgs, pctCard, goalVars, cloudVars, pageVars>>

\* as handleDeleteTransaction, removing every transaction of the category of the one clicked
handleDeleteTransaction_ByCategory(id) ==
    /\ id \in TxIds
    /\ LET category == (CHOOSE t \in {transactions[i] : i \in 1 .. Len(transactions)} :
                           t.id = id).category
           newValue == SelectSeq(transactions, LAMBDA t : t.category # category)
       IN  /\ transactions' = setValue(newValue)
           /\ storage' = setItem(TransactionsKey, newValue)
    /\ toast' = Toast("Transaction Deleted", "default", 0, None, 0)
    /\ logged' = <<>>
    /\ UNCHANGED <<tz, now, budgets, editingBudget, pctArgs, pctCard, formErrors,
                   goalVars, cloudVars, pageVars>>

\* SpendingPage (local storage): handleDeleteTransaction
handleDeleteTransaction(id) ==
    /\ id \in TxIds
    /\ LET newValue == SelectSeq(transactions, LAMBDA t : t.id # id)
       IN  /\ transactions' = setValue(newValue)
           /\ storage' = setItem(TransactionsKey, newValue)
    /\ toast' = Toast("Transaction Deleted", "default", 0, None, 0)
    /\ logged' = <<>>
    /\ UNCHANGED <<tz, now, budgets, editingBudget, pctArgs, pctCard, formErrors,
                   goalVars, cloudVars, pageVars>>

\* as SubmitBudget, with an edited budget taken out and put back at the end under a new id
SubmitBudget_EditReplaces(category, limit, period) ==
    /\ budgetSchema(category, limit, period)
    /\ IF editingBudget # NoBudget
       THEN /\ category = editingBudget.category
            /\ LET newValue ==
                       Append(SelectSeq(budgets, LAMBDA b : b.id # editingBudget.id),
                              [id |-> generateId(BudgetIds), category |-> category,
                               limit |-> limit, period |-> period])
               IN  /\ budgets' = setValue(newValue)
                   /\ storage' = setItem(BudgetsKey, newValue)
            /\ toast' = Toast("Budget Updated", "default", 0, category, 0)
       ELSE /\ Len(budgets) < MaxBudgets
            /\ LET newValue ==
                       Append(budgets, [id |-> generateId(BudgetIds), category |-> category,
                                        limit |-> limit, period |-> period])
               IN  /\ budgets' = setValue(newValue)
                   /\ storage' = setItem(BudgetsKey, newValue)
            /\ toast' = Toast("Budget Added", "default", 0, category, 0)
    /\ editingBudget' = NoBudget
    /\ logged' = <<>>
    /\ formErrors' = {}
    /\ UNCHANGED <<tz, now, transactions, pctArgs, pctCard, goalVars, cloudVars, pageVars>>

\* BudgetsPage (local storage): onSubmit; the category select is disabled while editing
SubmitBudget(category, limit, period) ==
    /\ budgetSchema(category, limit, period)
    /\ IF editingBudget # NoBudget
       THEN /\ category = editingBudget.category
            /\ LET newValue ==
                       [i \in 1 .. Len(budgets) |->
                           IF budgets[i].id = editingBudget.id
                           THEN [id |-> editingBudget.id, category |-> category,
                                 limit |-> limit, period |-> period]
                           ELSE budgets[i]]
               IN  /\ budgets' = setValue(newValue)
                   /\ storage' = setItem(BudgetsKey, newValue)
            /\ toast' = Toast("Budget Updated", "default", 0, category, 0)
       ELSE /\ Len(budgets) < MaxBudgets
            /\ LET newValue ==
                       Append(budgets, [id |-> generateId(BudgetIds), category |-> category,
                                        limit |-> limit, period |-> period])
               IN  /\ budgets' = setValue(newValue)
                   /\ storage' = setItem(BudgetsKey, newValue)
            /\ toast' = Toast("Budget Added", "default", 0, category, 0)
    /\ editingBudget' = NoBudget
    /\ logged' = <<>>
    /\ formErrors' = {}
    /\ UNCHANGED <<tz, now, transactions, pctArgs, pctCard, goalVars, cloudVars, pageVars>>

\* BudgetsPage (local storage): handleEditBudget
handleEditBudget(i) ==
    /\ i \in 1 .. Len(budgets)
    /\ editingBudget' = budgets[i]
    /\ UNCHANGED <<tz, now, transactions, budgets, toast, logged, pctArgs, pctCard,
                   storage, formErrors, goalVars, cloudVars, pageVars>>

\* BudgetsPage (local storage): the Cancel Edit button
CancelEdit ==
    /\ editingBudget # NoBudget
    /\ editingBudget' = NoBudget
    /\ UNCHANGED <<tz, now, transactions, budgets, toast, logged, pctArgs, pctCard,
                   storage, formErrors, goalVars, cloudVars, pageVars>>

\* BudgetsPage (local storage): handleDeleteBudget
handleDeleteBudget(id) ==
    /\ \E i \in 1 .. Len(budgets) : budgets[i].id = id
    /\ LET newValue == SelectSeq(budgets, LAMBDA b : b.id # id)
       IN  /\ budgets' = setValue(newValue)
           /\ storage' = setItem(BudgetsKey, newValue)
    /\ toast' = Toast("Budget Deleted", "default", 0, None, 0)
    /\ logged' = <<>>
    /\ UNCHANGED <<tz, now, transactions, editingBudget, pctArgs, pctCard, formErrors,
                   goalVars, cloudVars, pageVars>>

\* budgets.find(b => b.category === category && b.period === 'monthly'): the first match
budgetForCategory(bs, category) ==
    LET hits == {i \in 1 .. Len(bs) : bs[i].category = category /\ bs[i].period = "monthly"}
    IN  IF hits = {} THEN NoBudget ELSE bs[CHOOSE i \in hits : \A j \in hits : i <= j]

\* data.amount <= remainingBudget
withinBudget_Strict(amount, remainingBudget) == amount < remainingBudget

withinBudget(amount, remainingBudget) == amount <= remainingBudget

\* as exceedBy, with a remaining budget below zero taken as zero
exceedBy_ClampedRemaining(amount, remainingBudget) ==
    amount - (IF remainingBudget < 0 THEN 0 ELSE remainingBudget)

\* the amount the over-budget toast names: data.amount - remainingBudget
exceedBy(amount, remainingBudget) == amount - remainingBudget

\* the toast of the branch that finds no budget, raised as an error
NoBudgetFoundToast_Destructive(amount, category) ==
    Toast("No Budget Found", "destructive", amount, category, 0)

NoBudgetFoundToast(amount, category) ==
    Toast("No Budget Found", "default", amount, category, 0)

\* as SimulatePayment, with the payment also recorded as an expense of the category
SimulatePayment_Recording(amount, category) ==
    /\ paymentSchema(amount, category)
    /\ Len(transactions) < MaxTx
    /\ LET budget == budgetForCategory(budgets, category)
           remainingBudget ==
               budget.limit - SpendAggregator(transactions, category,
                                              startOfMonth(now, tz), endOfMonth(now, tz))
           newValue ==
               <<[id |-> generateId({transactions[i].id : i \in 1 .. Len(transactions)}),
                  amount |-> amount, type |-> "expense", category |-> category,
                  date |-> formatYMD(now, tz)]>> \o transactions
       IN  /\ toast' =
                 IF budget = NoBudget THEN NoBudgetFoundToast(amount, category)
                 ELSE IF withinBudget(amount, remainingBudget)
                 THEN Toast("Payment Successful (Simulation)", "default", amount, category, 0)
                 ELSE Toast("STRICT Warning: Over Budget! (Simulation)", "destructive",
                            amount, category, exceedBy(amount, remainingBudget))
           /\ logged' = IF budget = NoBudget THEN <<>> ELSE <<remainingBudget>>
           /\ transactions' = setValue(newValue)
           /\ storage' = setItem(TransactionsKey, newValue)
    /\ formErrors' = {}
    /\ UNCHANGED <<tz, now, budgets, editingBudget, pctArgs, pctCard, goalVars, cloudVars, pageVars>>

\* PaymentsPage: onSubmit
SimulatePayment(amount, category) ==
    /\ paymentSchema(amount, category)
    /\ LET budget == budgetForCategory(budgets, category)
       IN  IF budget = NoBudget
           THEN /\ toast' = NoBudgetFoundToast(amount, category)
                /\ logged' = <<>>
           ELSE LET spentThisMonth == SpendAggregator(transactions, category,
                                          startOfMonth(now, tz), endOfMonth(now, tz))
                    remainingBudget == budget.limit - spentThisMonth
                IN  /\ toast' =
                          IF withinBudget(amount, remainingBudget)
                          THEN Toast("Payment Successful (Simulation)", "default",
                                     amount, category, 0)
                          ELSE Toast("STRICT Warning: Over Budget! (Simulation)", "destructive",
                                     amount, category,
                                     exceedBy(amount, remainingBudget))
                    /\ logged' = <<remainingBudget>>
    /\ formErrors' = {}
    /\ UNCHANGED <<tz, now, transactions, budgets, editingBudget, pctArgs, pctCard,
                   storage, goalVars, cloudVars, pageVars>>

\* the budget card of the spent amount and the limit in pctArgs is rendered
RenderCard ==
    /\ pctCard = NoCard
    /\ pctCard' = RenderBudgetCard(pctArgs[1], pctArgs[2])
    /\ UNCHANGED <<tz, now, transactions, budgets, editingBudget, toast, logged, pctArgs,
                   storage, formErrors, goalVars, cloudVars, pageVars>>

-----------------------------------------------------------------------------
(* Inputs and specifications *)

Noon(day) == 24 * day + 12

TZOffsets == {0 - 5, 0, 5}

\* the calls of useLocalStorage that can be mounted in the window, and the key of each
HookInstances ==
    {"SpendingPage.transactions", "BudgetsPage.transactions", "BudgetsPage.budgets"}

HookKey(i) == IF i = "BudgetsPage.budgets" THEN BudgetsKey ELSE TransactionsKey

\* the page component that calls the hook
HookPage(i) == IF i = "SpendingPage.transactions" THEN "SpendingPage" ELSE "BudgetsPage"

\* an instance whose component is not mounted
Unmounted == [mounted |-> FALSE, storedValue |-> <<>>, rendered |-> <<>>]

\* currentUser === null
NoUser == "null"

\* BudgetsPage (cloud): no addBudget, updateBudget or deleteBudget in flight
NoRequest == [kind |-> None, category |-> "", limit |-> 0, period |-> "", id |-> 0]

\* SpendingPage (cloud): the initial values of its useState calls, nothing in flight
SpendingInitial == [transactions |-> <<>>, isLoading |-> TRUE, requests |-> {}]

\* DashboardPage: the initial values of its three useState calls
DashboardInitial == [transactions |-> <<>>, budgets |-> <<>>, isLoading |-> TRUE]

\* no hook instance mounted, no request in flight, the auth state still loading
InitPages ==
    /\ hooks = [i \in HookInstances |-> Unmounted]
    /\ processing = NoRequest
    /\ spending = SpendingInitial
    /\ auth = [currentUser |-> NoUser, loading |-> TRUE]
    /\ pathname = "/dashboard"
    /\ dashboard = DashboardInitial

\* nothing stored, no goal, no form submitted, and the cloud page not in use
InitRest ==
    /\ InitPages
    /\ goals = <<>>
    /\ editingGoal = NoGoal
    /\ storage = [k \in StorageKeys |-> NoItem]
    /\ formErrors = {}
    /\ budgetDetails = <<>>
    /\ fetchPending = FALSE

InitApp(nows, zones) ==
    /\ InitRest
    /\ tz \in zones
    /\ now \in nows
    /\ transactions = <<>>
    /\ budgets = <<>>
    /\ editingBudget = NoBudget
    /\ toast = NoToast
    /\ logged = <<>>
    /\ pctArgs = <<0, 0>>
    /\ pctCard = NoCard

\* Spec: transactions and budgets are added and payments simulated on 2024-03-10.
\* Deleting a transaction or a budget gives the collections of a shorter run with other
\* ids; the delete handlers run in SpecPeriod, SpecTx and SpecEdit.  What the forms are
\* filled with: <<amount, type, category, day>>, <<category, limit, period>>,
\* <<amount, category>>
SpecNows == {Noon(Day(2024, 3, 10))}

TxInputs ==
    {<<40, "expense", "Food", Day(2024, 3, 5)>>,
     <<10, "expense", "Food", Day(2024, 3, 5)>>,
     <<40, "income", "Food", Day(2024, 3, 5)>>,
     <<10, "expense", "Other", Day(2024, 3, 5)>>,
     <<10, "expense", "Food", Day(2024, 2, 20)>>,
     <<0, "expense", "Food", Day(2024, 3, 5)>>}

BudgetInputs ==
    {<<"Food", 30, "monthly">>, <<"Food", 40, "monthly">>, <<"Food", 30, "weekly">>,
     <<"Food", 0, "monthly">>}

PaymentInputs == {<<0, "Food">>, <<20, "Food">>, <<25, "Food">>, <<25, "Other">>}

Init == InitApp(SpecNows, {0 - 5, 0})

Next ==
    \/ \E f \in TxInputs : SubmitTransaction(f[1], f[2], f[3], f[4])
    \/ \E f \in BudgetInputs : SubmitBudget(f[1], f[2], f[3])
    \/ \E f \in PaymentInputs : SimulatePayment(f[1], f[2])

Spec == Init /\ [][Next]_vars

\* SpecCalc: the budget card of every spent amount and limit up to MaxMoney
InitCalc ==
    /\ InitRest
    /\ tz = 0
    /\ now \in SpecNows
    /\ transactions = <<>>
    /\ budgets = <<>>
    /\ editingBudget = NoBudget
    /\ toast = NoToast
    /\ logged = <<>>
    /\ pctArgs \in (0 .. MaxMoney) \X (0 .. MaxMoney)
    /\ pctCard = NoCard

NextCalc == RenderCard

SpecCalc == InitCalc /\ [][NextCalc]_vars

\* SpecPeriod: the days around the ends of the week, month and year, on three
\* reference dates (2024-03-10 is a Sunday, 2024-03-13 a Wednesday)
PeriodNows == {Noon(Day(2024, 2, 15)), Noon(Day(2024, 3, 10)), Noon(Day(2024, 3, 13))}

PeriodTxInputs ==
    {<<40, "expense", "Food", Day(2024, 3, 5)>>, <<10, "expense", "Food", Day(2024, 2, 20)>>}
        \cup ({10} \X {"expense"} \X {"Food"}
                 \X {Day(2023, 12, 31), Day(2024, 1, 1), Day(2024, 3, 1), Day(2024, 3, 12),
                     Day(2024, 12, 31)})

PeriodBudgetInputs == {"Food"} \X {30} \X Periods

PeriodPaymentInputs == {<<25, "Food">>}

InitPeriod == InitApp(PeriodNows, TZOffsets)

NextPeriod ==
    \/ \E f \in PeriodTxInputs : SubmitTransaction(f[1], f[2], f[3], f[4])
    \/ \E id \in TxIds : handleDeleteTransaction(id)
    \/ \E f \in PeriodBudgetInputs : SubmitBudget(f[1], f[2], f[3])
    \/ \E i \in 1 .. Len(budgets) : handleEditBudget(i)
    \/ CancelEdit
    \/ \E id \in BudgetIds : handleDeleteBudget(id)
    \/ \E f \in PeriodPaymentInputs : SimulatePayment(f[1], f[2])

SpecPeriod == InitPeriod /\ [][NextPeriod]_vars

-----------------------------------------------------------------------------
(* What the claims are stated with *)

RECURSIVE SumOfAmounts(_, _)
\* the sum of the amounts of the transactions at the positions in S
SumOfAmounts(txs, S) ==
    IF S = {} THEN 0
    ELSE LET i == CHOOSE i \in S : TRUE
         IN  txs[i].amount + SumOfAmounts(txs, S \ {i})

\* the expenses of a category whose date, read as new Date(date), lies in [start, end]
ExpensesWithin(txs, category, start, end) ==
    {i \in 1 .. Len(txs) :
        /\ txs[i].type = "expense"
        /\ txs[i].category = category
        /\ start <= NewDateFromString(txs[i].date)
        /\ NewDateFromString(txs[i].date) <= end}

\* the expenses of a category dated on the calendar days firstDay .. lastDay
ExpensesOnDays(txs, category, firstDay, lastDay) ==
    {i \in 1 .. Len(txs) :
        /\ txs[i].type = "expense"
        /\ txs[i].category = category
        /\ firstDay <= txs[i].date
        /\ txs[i].date <= lastDay}

Today == LocalDay(now, tz)

FirstDayOfMonth(day) == MonthStart(YearOf(day), MonthOf(day))
LastDayOfMonth(day) == FirstDayOfMonth(day) + DaysInMonth(YearOf(day), MonthOf(day)) - 1

PaymentTitles ==
    {"No Budget Found", "Payment Successful (Simulation)",
     "STRICT Warning: Over Budget! (Simulation)"}

\* the positions of the monthly budgets of a category
MonthlyBudgets(category) ==
    {i \in 1 .. Len(budgets) : budgets[i].category = category /\ budgets[i].period = "monthly"}

\* the limit the simulation compares with: that of the first monthly budget of the category
MatchedLimit(category) ==
    budgets[CHOOSE i \in MonthlyBudgets(category) : \A j \in MonthlyBudgets(category) : i <= j].limit

\* the expenses of a category in the month of now, as the simulation's interval has them
SpentThisMonth(category) ==
    SumOfAmounts(transactions,
                 ExpensesWithin(transactions, category,
                                LocalMidnight(FirstDayOfMonth(Today), tz),
                                LocalEndOfDay(LastDayOfMonth(Today), tz)))

-----------------------------------------------------------------------------
(* C1 *)

AggCategories == {"Food", "Other", "Travel"}
AggIntervals ==
    {<<LocalMidnight(d[1], tz), LocalEndOfDay(d[2], tz)>> :
        d \in {<<Day(2024, 2, 1), Day(2024, 2, 29)>>, <<Day(2024, 2, 20), Day(2024, 3, 5)>>,
               <<Day(2024, 3, 1), Day(2024, 3, 31)>>, <<Day(2024, 3, 6), Day(2024, 3, 31)>>}}

-----------------------------------------------------------------------------
(* C2 *)

-----------------------------------------------------------------------------
(* C3 *)

-----------------------------------------------------------------------------
(* C4 *)

\* the sum of a category's expenses dated on the calendar days firstDay .. lastDay
SpentOnDays(category, firstDay, lastDay) ==
    SumOfAmounts(transactions, ExpensesOnDays(transactions, category, firstDay, lastDay))

\* C4: the monthly interval runs from the first to the last calendar day of the month
\* of the reference date (2024-02-15 gives 2024-02-01 to 2024-02-29), and the spent
\* figure of a monthly budget, on either budgets page, is the sum of the category's
\* expenses dated on those days; Food 40 on 2024-03-05 and 10 on 2024-02-20 against a
\* limit of 30 on 2024-03-10 give spent 40, progress 133, overage 10.
C4_MonthlyCountsCalendarMonth ==
    /\ formatYMD(startOfMonth(now, tz), tz) = FirstDayOfMonth(Today)
    /\ formatYMD(endOfMonth(now, tz), tz) = LastDayOfMonth(Today)
    /\ Today = Day(2024, 2, 15) =>
          /\ formatYMD(CloudPeriod("monthly", now, tz)[1], tz) = Day(2024, 2, 1)
          /\ formatYMD(CloudPeriod("monthly", now, tz)[2], tz) = Day(2024, 2, 29)
    /\ \A i \in 1 .. Len(budgets) :
          budgets[i].period = "monthly" =>
              LET spent == SpentOnDays(budgets[i].category,
                                       FirstDayOfMonth(Today), LastDayOfMonth(Today))
              IN  /\ LocalBudgetCards[i].spentAmount = spent
                  /\ CloudBudgetCards[i].spentAmount = spent
    /\ ( /\ Today = Day(2024, 3, 10)
         /\ Len(budgets) = 1 /\ budgets[1].period = "monthly"
         /\ Len(transactions) = 2
         /\ transactions[1].amount = 40 /\ transactions[1].date = Day(2024, 3, 5)
         /\ transactions[2].amount = 10 /\ transactions[2].date = Day(2024, 2, 20) )
       => /\ LocalBudgetCards[1].spentAmount = 40
          /\ LocalBudgetCards[1].progress = 133
          /\ LocalBudgetCards[1].overBudget
          /\ LocalBudgetCards[1].overBy = 10

-----------------------------------------------------------------------------
(* C5 *)

\* the first day of the week of day, for a week that starts on weekday ws (0 = Sunday)
WeekStartDay(day, ws) == day - ((WeekdayOf(day) - ws) % 7)

\* C5: the spent figure of a weekly budget, on either budgets page, is the sum of the
\* category's expenses dated in one calendar week (of whichever first day) that
\* contains the reference date.  Stated for a browser on UTC, where a date string and
\* a local day coincide.
C5_WeeklyCountsOneWeek ==
    tz = 0 =>
        \A i \in 1 .. Len(budgets) :
            budgets[i].period = "weekly" =>
                /\ \E ws \in 0 .. 6 :
                      LocalBudgetCards[i].spentAmount
                          = SpentOnDays(budgets[i].category,
                                        WeekStartDay(Today, ws), WeekStartDay(Today, ws) + 6)
                /\ \E ws \in 0 .. 6 :
                      CloudBudgetCards[i].spentAmount
                          = SpentOnDays(budgets[i].category,
                                        WeekStartDay(Today, ws), WeekStartDay(Today, ws) + 6)

-----------------------------------------------------------------------------
(* C6 *)

\* C6: for every reference date the dashboard, the cloud budgets page and the
\* local-storage budgets page resolve the current week to the same [start, end].
C6_OneWeekEverywhere ==
    /\ DashboardWeek(now, tz) = CloudPeriod("weekly", now, tz)
    /\ CloudPeriod("weekly", now, tz) = LocalStorageWeek(now, tz)

-----------------------------------------------------------------------------
(* C7 *)

\* C7: the spent figure of a yearly budget, on either budgets page, is the sum of the
\* category's expenses dated from January 1 to December 31 of the year of the
\* reference date, both days included, and of no other year.
C7_YearlyCountsCalendarYear ==
    \A i \in 1 .. Len(budgets) :
        budgets[i].period = "yearly" =>
            LET y == YearOf(Today)
                spent == SpentOnDays(budgets[i].category, Day(y, 1, 1), Day(y, 12, 31))
            IN  /\ LocalBudgetCards[i].spentAmount = spent
                /\ CloudBudgetCards[i].spentAmount = spent

-----------------------------------------------------------------------------
(* C8 *)

\* C8: a simulated payment whose category has no (monthly) budget ends in "No Budget
\* Found", and only such a payment does: the notice is not an error (variant
\* default), no spend is aggregated and no remaining budget computed, and neither the
\* within-budget nor the over-budget outcome is reported.
C8_NoBudgetFound ==
    toast.title \in PaymentTitles =>
        /\ (MonthlyBudgets(toast.category) = {}) <=> (toast.title = "No Budget Found")
        /\ toast.title = "No Budget Found" =>
              /\ toast.variant = "default"
              /\ toast.exceedBy = 0
              /\ logged = <<>>

\* a payment was simulated for a category whose only budget is not the monthly one
C8_Witness ==
    /\ toast.title = "No Budget Found"
    /\ toast.category = "Food"
    /\ toast.amount = 25
    /\ Len(budgets) = 1
    /\ budgets[1].category = "Food"
    /\ Len(transactions) > 0

-----------------------------------------------------------------------------
(* C9 *)

-----------------------------------------------------------------------------
(* C10 *)

\* C10: an over-budget report names amount - remaining = amount - (limit - spent) as
\* the excess, also when remaining is already negative: 25 against a limit of 30 with
\* 40 spent is reported as over by 35.
C10_OverageIsAmountLessRemaining ==
    toast.title = "STRICT Warning: Over Budget! (Simulation)" =>
        LET limit == MatchedLimit(toast.category)
            spent == SpentThisMonth(toast.category)
        IN  /\ toast.exceedBy = toast.amount - (limit - spent)
            /\ toast.exceedBy > 0
            /\ toast.variant = "destructive"
            /\ (toast.amount = 25 /\ limit = 30 /\ spent = 40) => toast.exceedBy = 35

\* 25 was simulated against a limit of 30 with 40 spent
C10_Witness ==
    /\ toast.title = "STRICT Warning: Over Budget! (Simulation)"
    /\ toast.amount = 25
    /\ MatchedLimit(toast.category) = 30
    /\ SpentThisMonth(toast.category) = 40
    /\ logged = <<0 - 10>>
    /\ toast.exceedBy = 35

-----------------------------------------------------------------------------
(* C11 *)

\* the toast a simulation of amount for category shows in the current state
SimulationOutcome(amount, category) ==
    IF MonthlyBudgets(category) = {}
    THEN Toast("No Budget Found", "default", amount, category, 0)
    ELSE LET remaining == MatchedLimit(category) - SpentThisMonth(category)
         IN  IF amount <= remaining
             THEN Toast("Payment Successful (Simulation)", "default", amount, category, 0)
             ELSE Toast("STRICT Warning: Over Budget! (Simulation)", "destructive",
                        amount, category, amount - remaining)

\* C11: a step that shows a simulation's toast, whatever the outcome, leaves the
\* transactions, the budgets, the goals, all of localStorage and the reference date as
\* they were; and the outcome on show is the one a simulation of the same amount and
\* category gives in the state the step leaves, so that repeating it shows it again.
C11_SimulationIsReadOnly ==
    /\ [][toast'.title \in PaymentTitles =>
             /\ UNCHANGED <<transactions, budgets, goals, storage, now, tz>>
             /\ toast' = SimulationOutcome(toast'.amount, toast'.category)]_vars
    /\ [](toast.title \in PaymentTitles =>
             toast = SimulationOutcome(toast.amount, toast.category))

\* an over-budget simulation ran over stored transactions and budgets
C11_Witness ==
    /\ toast.title = "STRICT Warning: Over Budget! (Simulation)"
    /\ toast.amount = 20
    /\ Len(transactions) = 2
    /\ Len(budgets) = 1
    /\ storage[TransactionsKey] = Item(JSONstringify(transactions))
    /\ storage[BudgetsKey] = Item(JSONstringify(budgets))
    /\ storage[GoalsKey] = NoItem

-----------------------------------------------------------------------------
(* C12 *)

\* C12: the simulation looks at monthly budgets only: it answers "No Budget Found"
\* exactly when the category has no monthly budget (weekly and yearly budgets of the
\* category do not count), and with a monthly budget the spend it compares with the
\* limit is the sum of the category's expenses dated in the calendar month of today.
C12_SimulatorChecksMonthlyOnly ==
    toast.title \in PaymentTitles =>
        /\ toast.title = "No Budget Found" <=> MonthlyBudgets(toast.category) = {}
        /\ MonthlyBudgets(toast.category) # {} =>
              logged = <<MatchedLimit(toast.category)
                           - SpentOnDays(toast.category,
                                         FirstDayOfMonth(Today), LastDayOfMonth(Today))>>

-----------------------------------------------------------------------------
(* BudgetsPage (cloud).  In SpecCloud transactions and budgets are the user's two
   Firestore collections, budgets in the order getBudgets returns them, and
   budgetDetails is the page's state; fetchPending is isLoading, with at most one
   fetchUserBudgetsAndDetails under way, which reads the collections when it resolves. *)

\* what fetchUserBudgetsAndDetails resolves to: each budget with spentAmount and progress
CloudBudgetDetails(bs, txs, today, z) ==
    [i \in 1 .. Len(bs) |->
        LET spentAmount == CloudSpentAmount(txs, bs[i], today, z)
        IN  [id |-> bs[i].id, category |-> bs[i].category, limit |-> bs[i].limit,
             period |-> bs[i].period, spentAmount |-> spentAmount,
             progress |-> calculatePercentage(spentAmount, bs[i].limit)]]

DetailIds == {budgetDetails[i].id : i \in 1 .. Len(budgetDetails)}

\* the page is opened: state from useState, and the effect starts the first fetch
CloudMount ==
    /\ budgetDetails' = <<>>
    /\ editingBudget' = NoBudget
    /\ fetchPending' = TRUE
    /\ toast' = NoToast
    /\ UNCHANGED <<tz, now, transactions, budgets, logged, pctArgs, pctCard, storage,
                   formErrors, goalVars, pageVars>>

\* fetchUserBudgetsAndDetails: getBudgets and every getTransactionsForPeriod resolve
FetchResolves ==
    /\ fetchPending
    /\ budgetDetails' = CloudBudgetDetails(budgets, transactions, now, tz)
    /\ fetchPending' = FALSE
    /\ UNCHANGED <<tz, now, transactions, budgets, editingBudget, toast, logged, pctArgs,
                   pctCard, storage, formErrors, goalVars, pageVars>>

\* fetchUserBudgetsAndDetails: a read rejects; the catch shows a toast, the details stay
FetchFails ==
    /\ fetchPending
    /\ toast' = Toast("Error", "destructive", 0, None, 0)
    /\ fetchPending' = FALSE
    /\ UNCHANGED <<tz, now, transactions, budgets, editingBudget, logged, pctArgs, pctCard,
                   storage, formErrors, goalVars, budgetDetails, pageVars>>

\* onSubmit; the submit button is disabled while isLoading.  updateDoc rejects for a
\* document that is no longer there.  The fetch is started and not awaited.
CloudSubmitBudget(category, limit, period) ==
    /\ ~fetchPending
    /\ budgetSchema(category, limit, period)
    /\ IF editingBudget # NoBudget
       THEN /\ category = editingBudget.category
            /\ IF \E i \in 1 .. Len(budgets) : budgets[i].id = editingBudget.id
               THEN /\ budgets' = [i \in 1 .. Len(budgets) |->
                                      IF budgets[i].id = editingBudget.id
                                      THEN [id |-> editingBudget.id, category |-> category,
                                            limit |-> limit, period |-> period]
                                      ELSE budgets[i]]
                    /\ toast' = Toast("Budget Updated", "default", 0, category, 0)
                    /\ editingBudget' = NoBudget
                    /\ fetchPending' = TRUE
               ELSE /\ toast' = Toast("Error", "destructive", 0, None, 0)
                    /\ UNCHANGED <<budgets, editingBudget, fetchPending>>
       ELSE /\ Len(budgets) < MaxBudgets
            /\ budgets' = Append(budgets, [id |-> generateId(BudgetIds \cup DetailIds),
                                           category |-> category, limit |-> limit,
                                           period |-> period])
            /\ toast' = Toast("Budget Added", "default", 0, category, 0)
            /\ fetchPending' = TRUE
            /\ UNCHANGED editingBudget
    /\ logged' = <<>>
    /\ formErrors' = {}
    /\ UNCHANGED <<tz, now, transactions, pctArgs, pctCard, storage, goalVars, budgetDetails, pageVars>>

\* handleDeleteBudget, from the button of a card; deleteDoc resolves also when the
\* document is gone.  The fetch is started and not awaited.
CloudDeleteBudget(id) ==
    /\ id \in DetailIds
    /\ budgets' = SelectSeq(budgets, LAMBDA b : b.id # id)
    /\ toast' = Toast("Budget Deleted", "default", 0, None, 0)
    /\ fetchPending' = TRUE
    /\ logged' = <<>>
    /\ UNCHANGED <<tz, now, transactions, editingBudget, pctArgs, pctCard, storage,
                   formErrors, goalVars, budgetDetails, pageVars>>

\* handleEditBudget, from the button of a card
CloudEditBudget(i) ==
    /\ i \in 1 .. Len(budgetDetails)
    /\ editingBudget' = [id |-> budgetDetails[i].id, category |-> budgetDetails[i].category,
                         limit |-> budgetDetails[i].limit, period |-> budgetDetails[i].period]
    /\ UNCHANGED <<tz, now, transactions, budgets, toast, logged, pctArgs, pctCard,
                   storage, formErrors, goalVars, cloudVars, pageVars>>

\* SpendingPage (cloud): onSubmit's addTransaction, as the budgets page sees it: a new
\* document of the transactions collection
CloudAddTransaction(amount, type, category, pickedDay) ==
    /\ transactionSchema(amount, type, category)
    /\ Len(transactions) < MaxTx
    /\ transactions' = Append(transactions,
                              [id |-> generateId(TxIds), amount |-> amount, type |-> type,
                               category |-> category,
                               date |-> formatYMD(LocalMidnight(pickedDay, tz), tz)])
    /\ UNCHANGED <<tz, now, budgets, editingBudget, toast, logged, pctArgs, pctCard,
                   storage, formErrors, goalVars, cloudVars, pageVars>>

\* SpendingPage (cloud): handleDeleteTransaction's deleteTransaction, likewise
CloudDeleteTransaction(id) ==
    /\ id \in TxIds
    /\ transactions' = SelectSeq(transactions, LAMBDA t : t.id # id)
    /\ UNCHANGED <<tz, now, budgets, editingBudget, toast, logged, pctArgs, pctCard,
                   storage, formErrors, goalVars, cloudVars, pageVars>>

\* SpecCloud: the cloud budgets page on 2024-03-10, over a Firestore that the spending
\* page writes to
CloudTxInputs == {<<40, "expense", "Food", Day(2024, 3, 5)>>}
CloudBudgetInputs == {<<"Food", 30, "monthly">>, <<"Food", 50, "monthly">>}

InitCloud == InitApp(SpecNows, {0})

NextCloud ==
    \/ CloudMount
    \/ FetchResolves
    \/ FetchFails
    \/ \E f \in CloudBudgetInputs : CloudSubmitBudget(f[1], f[2], f[3])
    \/ \E id \in DetailIds : CloudDeleteBudget(id)
    \/ \E i \in 1 .. Len(budgetDetails) : CloudEditBudget(i)
    \/ CancelEdit
    \/ \E f \in CloudTxInputs : CloudAddTransaction(f[1], f[2], f[3], f[4])
    \/ \E id \in TxIds : CloudDeleteTransaction(id)

SpecCloud == InitCloud /\ [][NextCloud]_vars

-----------------------------------------------------------------------------
(* C13 *)

\* the cloud page shows cards (not the spinner of the first load)
CardsOnShow == ~(fetchPending /\ budgetDetails = <<>>)

\* C13: no spent figure on show is stale: whenever the budgets page shows its cards,
\* the budgets with a card are exactly the budgets of the collection, each card carries
\* its budget's current limit and period, and its spent amount is the aggregation over
\* the current transactions for the budget's category and interval.
C13_SpentNeverStale ==
    CardsOnShow =>
        /\ DetailIds = {budgets[j].id : j \in 1 .. Len(budgets)}
        /\ Len(budgetDetails) = Len(budgets)
        /\ \A i \in 1 .. Len(budgetDetails) : \A j \in 1 .. Len(budgets) :
              budgets[j].id = budgetDetails[i].id =>
                  /\ budgetDetails[i].limit = budgets[j].limit
                  /\ budgetDetails[i].period = budgets[j].period
                  /\ budgetDetails[i].spentAmount
                         = CloudSpentAmount(transactions, budgets[j], now, tz)

-----------------------------------------------------------------------------
(* FinancialGoalsPage, and forms the resolver rejects *)

MaxGoals == 1

\* as goalSchema, with a target amount of 0 let through
goalSchema_NonNegativeTarget(targetAmount, currentAmount) ==
    targetAmount >= 0 /\ (currentAmount = Undefined \/ currentAmount >= 0)

\* targetAmount: positive; currentAmount: min(0), optional
goalSchema(targetAmount, currentAmount) ==
    targetAmount > 0 /\ (currentAmount = Undefined \/ currentAmount >= 0)

\* goal.deadline, of a goal that may have been through JSON
Deadline(goal) == IF "deadline" \in DOMAIN goal THEN goal.deadline ELSE Undefined

GoalIds ==
    {goals[i].id : i \in 1 .. Len(goals)}
        \cup (IF editingGoal = NoGoal THEN {} ELSE {editingGoal.id})

\* FinancialGoalsPage: onSubmit; pickedDay is the deadline picked, or Undefined
SubmitGoal(targetAmount, currentAmount, pickedDay) ==
    /\ goalSchema(targetAmount, currentAmount)
    /\ LET goalData ==
               [targetAmount |-> targetAmount,
                currentAmount |-> IF currentAmount = Undefined THEN 0 ELSE currentAmount,
                deadline |-> IF pickedDay = Undefined THEN Undefined
                             ELSE formatYMD(LocalMidnight(pickedDay, tz), tz)]
       IN  IF editingGoal # NoGoal
           THEN /\ LET newValue ==
                           [i \in 1 .. Len(goals) |->
                               IF goals[i].id = editingGoal.id
                               THEN [id |-> editingGoal.id] @@ goalData
                               ELSE goals[i]]
                   IN  /\ goals' = setValue(newValue)
                       /\ storage' = setItem(GoalsKey, newValue)
                /\ toast' = Toast("Goal Updated", "default", 0, None, 0)
           ELSE /\ Len(goals) < MaxGoals
                /\ LET newValue == Append(goals, [id |-> generateId(GoalIds)] @@ goalData)
                   IN  /\ goals' = setValue(newValue)
                       /\ storage' = setItem(GoalsKey, newValue)
                /\ toast' = Toast("Goal Added", "default", 0, None, 0)
    /\ editingGoal' = NoGoal
    /\ logged' = <<>>
    /\ formErrors' = {}
    /\ UNCHANGED <<tz, now, transactions, budgets, editingBudget, pctArgs, pctCard, cloudVars, pageVars>>

\* FinancialGoalsPage: handleDeleteGoal
handleDeleteGoal(id) ==
    /\ \E i \in 1 .. Len(goals) : goals[i].id = id
    /\ LET newValue == SelectSeq(goals, LAMBDA g : g.id # id)
       IN  /\ goals' = setValue(newValue)
           /\ storage' = setItem(GoalsKey, newValue)
    /\ toast' = Toast("Goal Deleted", "default", 0, None, 0)
    /\ logged' = <<>>
    /\ UNCHANGED <<tz, now, transactions, budgets, editingBudget, pctArgs, pctCard,
                   formErrors, editingGoal, cloudVars, pageVars>>

\* FinancialGoalsPage: handleEditGoal
handleEditGoal(i) ==
    /\ i \in 1 .. Len(goals)
    /\ editingGoal' = goals[i]
    /\ UNCHANGED <<tz, now, transactions, budgets, editingBudget, toast, logged, pctArgs,
                   pctCard, storage, formErrors, goals, cloudVars, pageVars>>

\* handleSubmit of a form whose values the zod resolver rejects: onSubmit is not called,
\* the fields in error get their messages
RejectedSubmit(errors) ==
    /\ errors # {}
    /\ formErrors' = errors
    /\ UNCHANGED <<tz, now, transactions, budgets, editingBudget, toast, logged, pctArgs,
                   pctCard, storage, goalVars, cloudVars, pageVars>>

transactionErrors(amount, type, category) ==
    (IF amount > 0 THEN {} ELSE {"amount"})
        \cup (IF type \in TransactionTypes THEN {} ELSE {"type"})
        \cup (IF category # "" THEN {} ELSE {"category"})

budgetErrors(category, limit, period) ==
    (IF category # "" THEN {} ELSE {"category"})
        \cup (IF limit > 0 THEN {} ELSE {"limit"})
        \cup (IF period \in Periods THEN {} ELSE {"period"})

goalErrors(targetAmount, currentAmount) ==
    (IF targetAmount > 0 THEN {} ELSE {"targetAmount"})
        \cup (IF currentAmount = Undefined \/ currentAmount >= 0 THEN {} ELSE {"currentAmount"})

\* SpecForms: the three forms of the local-storage pages, filled with valid and invalid
\* values, and the payment simulation, on 2024-03-10
FormTxInputs ==
    {<<10, "expense", "Food", Day(2024, 3, 5)>>, <<0, "expense", "Food", Day(2024, 3, 5)>>,
     <<0 - 5, "income", "Food", Day(2024, 3, 5)>>}

FormBudgetInputs ==
    {<<"Food", 30, "monthly">>, <<"Food", 0, "monthly">>, <<"Food", 0 - 5, "weekly">>}

FormGoalInputs ==
    {<<100, 20, Day(2024, 12, 31)>>, <<50, Undefined, Undefined>>, <<100, 0, Undefined>>,
     <<0, 0, Undefined>>, <<0 - 5, 20, Undefined>>, <<100, 0 - 5, Undefined>>}

FormPaymentInputs == {<<25, "Food">>}

InitForms == InitApp(SpecNows, {0})

NextForms ==
    \/ \E f \in FormTxInputs : SubmitTransaction(f[1], f[2], f[3], f[4])
    \/ \E f \in FormTxInputs : RejectedSubmit(transactionErrors(f[1], f[2], f[3]))
    \/ \E f \in FormBudgetInputs : SubmitBudget(f[1], f[2], f[3])
    \/ \E f \in FormBudgetInputs : RejectedSubmit(budgetErrors(f[1], f[2], f[3]))
    \/ \E i \in 1 .. Len(budgets) : handleEditBudget(i)
    \/ \E f \in FormGoalInputs : SubmitGoal(f[1], f[2], f[3])
    \/ \E f \in FormGoalInputs : RejectedSubmit(goalErrors(f[1], f[2]))
    \/ \E i \in 1 .. Len(goals) : handleEditGoal(i)
    \/ \E id \in GoalIds : handleDeleteGoal(id)
    \/ \E f \in FormPaymentInputs : SimulatePayment(f[1], f[2])

SpecForms == InitForms /\ [][NextForms]_vars

-----------------------------------------------------------------------------
(* C14 *)

\* every stored record is valid, in memory and in localStorage
StoredRecordsAreValid ==
    /\ \A i \in 1 .. Len(budgets) : budgets[i].limit > 0
    /\ \A i \in 1 .. Len(transactions) :
          transactions[i].amount > 0 /\ transactions[i].type \in {"expense", "income"}
    /\ \A i \in 1 .. Len(goals) : goals[i].targetAmount > 0 /\ goals[i].currentAmount >= 0
    /\ \A i \in 1 .. Len(ReadStorage(BudgetsKey)) : ReadStorage(BudgetsKey)[i].limit > 0
    /\ \A i \in 1 .. Len(ReadStorage(TransactionsKey)) :
          /\ ReadStorage(TransactionsKey)[i].amount > 0
          /\ ReadStorage(TransactionsKey)[i].type \in {"expense", "income"}
    /\ \A i \in 1 .. Len(ReadStorage(GoalsKey)) :
          /\ ReadStorage(GoalsKey)[i].targetAmount > 0
          /\ ReadStorage(GoalsKey)[i].currentAmount >= 0

\* C14: a submission that is rejected (the form gets new error messages) leaves the
\* transactions, the budgets, the goals and localStorage unchanged; and in every state
\* every stored budget has limit > 0, every stored transaction has amount > 0 and type
\* expense or income, and every stored goal has targetAmount > 0 and currentAmount >= 0.
C14_InvalidAmountsRejected ==
    /\ [][(formErrors' # {} /\ formErrors' # formErrors) =>
             UNCHANGED <<transactions, budgets, goals, storage>>]_vars
    /\ []StoredRecordsAreValid

\* an edit of a goal to a target of 0 has just been rejected: the goal is as it was
C14_Witness ==
    /\ formErrors = {"targetAmount"}
    /\ editingGoal # NoGoal
    /\ Len(goals) = 1
    /\ goals[1].targetAmount = 50
    /\ goals[1].currentAmount = 0
    /\ Len(transactions) >= 1
    /\ Len(budgets) = 1

-----------------------------------------------------------------------------
(* C15 *)

\* SpecTx: transactions of three dates are added and deleted, among budgets and
\* simulated payments, on 2024-03-10
TxOnlyInputs ==
    {<<40, "expense", "Food", Day(2024, 3, 5)>>, <<10, "expense", "Food", Day(2024, 2, 20)>>,
     <<10, "income", "Other", Day(2024, 3, 9)>>}

InitTx == InitApp(SpecNows, {0 - 5, 0})

NextTx ==
    \/ \E f \in TxOnlyInputs : SubmitTransaction(f[1], f[2], f[3], f[4])
    \/ \E id \in TxIds : handleDeleteTransaction(id)
    \/ \E f \in FormBudgetInputs : SubmitBudget(f[1], f[2], f[3])
    \/ \E f \in FormPaymentInputs : SimulatePayment(f[1], f[2])

SpecTx == InitTx /\ [][NextTx]_vars

\* C15: in every step a transaction that is there before and after keeps its amount,
\* type, category and date, in memory and in localStorage, and a step that removes
\* anything removes the one transaction of one id and keeps the others, in their order.
C15_TransactionsAreImmutable ==
    [][/\ \A i \in 1 .. Len(transactions) : \A j \in 1 .. Len(transactions') :
             transactions[i].id = transactions'[j].id => transactions[i] = transactions'[j]
       /\ \A i \in 1 .. Len(ReadStorage(TransactionsKey)) :
             \A j \in 1 .. Len(ReadStorage(TransactionsKey)') :
                ReadStorage(TransactionsKey)[i].id = ReadStorage(TransactionsKey)'[j].id =>
                    ReadStorage(TransactionsKey)[i] = ReadStorage(TransactionsKey)'[j]
       /\ TxIds \ TxIds' # {} =>
             \E id \in TxIds :
                /\ TxIds' = TxIds \ {id}
                /\ Len(transactions') = Len(transactions) - 1
                /\ transactions' = SelectSeq(transactions, LAMBDA t : t.id # id)]_vars

\* one of two transactions of the same category has just been deleted
C15_Witness ==
    /\ toast.title = "Transaction Deleted"
    /\ Len(transactions) = 1
    /\ transactions[1] = [id |-> 1, amount |-> 40, type |-> "expense", category |-> "Food",
                          date |-> Day(2024, 3, 5)]
    /\ ReadStorage(TransactionsKey) = transactions

-----------------------------------------------------------------------------
(* C16 *)

\* SpecEdit: the budgets page opened with nothing stored, or with two budgets stored by
\* an earlier visit; budgets are edited, deleted and added on 2024-03-10
StoredBudgets ==
    <<[id |-> 1, category |-> "Food", limit |-> 30, period |-> "monthly"],
      [id |-> 2, category |-> "Other", limit |-> 20, period |-> "weekly"]>>

EditBudgetInputs ==
    {<<"Food", 30, "monthly">>, <<"Food", 50, "weekly">>, <<"Other", 20, "yearly">>,
     <<"Other", 0, "weekly">>}

InitEdit ==
    /\ tz = 0
    /\ now \in SpecNows
    /\ transactions = <<>>
    /\ budgets \in {<<>>, StoredBudgets}
    /\ storage = [k \in StorageKeys |->
                     IF k = BudgetsKey /\ budgets # <<>>
                     THEN Item(JSONstringify(budgets)) ELSE NoItem]
    /\ editingBudget = NoBudget
    /\ toast = NoToast
    /\ logged = <<>>
    /\ pctArgs = <<0, 0>>
    /\ pctCard = NoCard
    /\ goals = <<>>
    /\ editingGoal = NoGoal
    /\ formErrors = {}
    /\ budgetDetails = <<>>
    /\ fetchPending = FALSE
    /\ InitPages

NextEdit ==
    \/ \E f \in EditBudgetInputs : SubmitBudget(f[1], f[2], f[3])
    \/ \E f \in EditBudgetInputs : RejectedSubmit(budgetErrors(f[1], f[2], f[3]))
    \/ \E i \in 1 .. Len(budgets) : handleEditBudget(i)
    \/ CancelEdit
    \/ \E id \in BudgetIds : handleDeleteBudget(id)

SpecEdit == InitEdit /\ [][NextEdit]_vars

\* C16: when the form is submitted while a budget is being edited, the number of budgets
\* stays the same, the budget with the edited id stays at its position with its id and
\* carries the submitted category, limit and period, every other budget is unchanged,
\* and localStorage holds the same collection.
C16_EditUpdatesInPlace ==
    [][\A f \in EditBudgetInputs :
          (editingBudget # NoBudget /\ SubmitBudget(f[1], f[2], f[3])) =>
              /\ Len(budgets') = Len(budgets)
              /\ \A i \in 1 .. Len(budgets) :
                    budgets'[i] = IF budgets[i].id = editingBudget.id
                                  THEN [id |-> budgets[i].id, category |-> f[1],
                                        limit |-> f[2], period |-> f[3]]
                                  ELSE budgets[i]
              /\ ReadStorage(BudgetsKey)' = budgets']_vars

\* the first of two budgets has just been edited to a limit of 50 a week
C16_Witness ==
    /\ toast.title = "Budget Updated"
    /\ editingBudget = NoBudget
    /\ budgets = <<[id |-> 1, category |-> "Food", limit |-> 50, period |-> "weekly"],
                   StoredBudgets[2]>>
    /\ ReadStorage(BudgetsKey) = budgets

-----------------------------------------------------------------------------
(* C17 *)

\* SpecGoals: goals are added and deleted while transactions and budgets come
\* and go and payments are simulated, on 2024-03-10
GoalTxInputs == {<<10, "income", "Other", Day(2024, 3, 9)>>}

GoalBudgetInputs == {<<"Food", 30, "monthly">>}

GoalInputs == {<<100, 20, Day(2024, 12, 31)>>, <<50, Undefined, Undefined>>}

InitGoals == InitApp(SpecNows, {0})

\* a step of the spending page, the budgets page or the payments page
NotAGoalStep ==
    \/ \E f \in GoalTxInputs : SubmitTransaction(f[1], f[2], f[3], f[4])
    \/ \E id \in TxIds : handleDeleteTransaction(id)
    \/ \E f \in GoalBudgetInputs : SubmitBudget(f[1], f[2], f[3])
    \/ \E i \in 1 .. Len(budgets) : handleEditBudget(i)
    \/ \E id \in BudgetIds : handleDeleteBudget(id)
    \/ \E f \in FormPaymentInputs : SimulatePayment(f[1], f[2])

NextGoals ==
    \/ \E f \in GoalTxInputs : SubmitTransaction(f[1], f[2], f[3], f[4])
    \/ \E id \in TxIds : handleDeleteTransaction(id)
    \/ \E f \in GoalBudgetInputs : SubmitBudget(f[1], f[2], f[3])
    \/ \E i \in 1 .. Len(budgets) : handleEditBudget(i)
    \/ \E id \in BudgetIds : handleDeleteBudget(id)
    \/ \E f \in FormPaymentInputs : SimulatePayment(f[1], f[2])
    \/ \E f \in GoalInputs : SubmitGoal(f[1], f[2], f[3])
    \/ \E id \in GoalIds : handleDeleteGoal(id)

SpecGoals == InitGoals /\ [][NextGoals]_vars

\* C17: adding or deleting a transaction, adding, editing or deleting a budget and
\* simulating a payment leave every goal as it was (targetAmount, currentAmount,
\* deadline), in memory and in localStorage, and the goal being edited too.
C17_GoalsAreIndependent ==
    [][NotAGoalStep =>
          /\ goals' = goals
          /\ storage'[GoalsKey] = storage[GoalsKey]
          /\ editingGoal' = editingGoal]_vars

\* an income has just been recorded beside a stored goal that has 20 of 100 saved
C17_Witness ==
    /\ toast.title = "Transaction Added"
    /\ \E i \in 1 .. Len(transactions) : transactions[i].type = "income"
    /\ Len(budgets) = 1
    /\ Len(goals) = 1
    /\ goals[1].targetAmount = 100
    /\ goals[1].currentAmount = 20
    /\ Deadline(goals[1]) = Day(2024, 12, 31)
    /\ ReadStorage(GoalsKey) = goals

-----------------------------------------------------------------------------
(* C18 *)

\* useLocalStorage: handleStorageChange, for the transactions key: another tab or
\* program has stored text under the key, and the storage event delivers it
handleStorageChange(text) ==
    /\ Len(text) <= MaxTx
    /\ storage' = [storage EXCEPT ![TransactionsKey] = Item(text)]
    /\ transactions' = JSONparse(text)
    /\ UNCHANGED <<tz, now, budgets, editingBudget, toast, logged, pctArgs, pctCard,
                   formErrors, goalVars, cloudVars, pageVars>>

\* a Food expense of 10 whose date is not a date
Malformed ==
    [id |-> 9, amount |-> 10, type |-> "expense", category |-> "Food",
     date |-> InvalidDateString]

\* SpecBadDate: the collection comes to hold a transaction with a date that cannot be
\* parsed, written to localStorage from outside the form; budgets of the three periods
\* are shown and payments simulated, on 2024-03-10
ExternalTexts ==
    {<<Malformed>>,
     <<[id |-> 1, amount |-> 40, type |-> "expense", category |-> "Food",
        date |-> Day(2024, 3, 5)], Malformed>>}

BadDateTxInputs ==
    {<<40, "expense", "Food", Day(2024, 3, 5)>>, <<10, "expense", "Food", Day(2024, 2, 20)>>}

InitBadDate == InitApp(SpecNows, {0 - 5, 0})

NextBadDate ==
    \/ \E text \in ExternalTexts : handleStorageChange(text)
    \/ \E f \in BadDateTxInputs : SubmitTransaction(f[1], f[2], f[3], f[4])
    \/ \E id \in TxIds : handleDeleteTransaction(id)
    \/ \E f \in PeriodBudgetInputs : SubmitBudget(f[1], f[2], f[3])
    \/ \E id \in BudgetIds : handleDeleteBudget(id)
    \/ \E f \in PeriodPaymentInputs : SimulatePayment(f[1], f[2])

SpecBadDate == InitBadDate /\ [][NextBadDate]_vars

\* the transactions whose date is a date
WellFormed == SelectSeq(transactions, LAMBDA t : t.date # InvalidDateString)

\* every budget has its card, and the cards and the dashboard show the figures of the
\* collection without the transactions whose date is not a date
FiguresSkipUnparseable ==
    /\ DOMAIN LocalBudgetCards = 1 .. Len(budgets)
    /\ \A i \in 1 .. Len(budgets) :
          LocalBudgetCards[i].spentAmount
              = calculateSpentAmount(WellFormed, budgets[i], now, tz)
    /\ currentMonthBudget(transactions, budgets, now, tz)
           = currentMonthBudget(WellFormed, budgets, now, tz)

\* C18: with a transaction whose date cannot be parsed in the collection, every budget
\* still has its card, the spent figure of each card and the dashboard's spent figure of
\* the month are those of the collection without that transaction, and a simulation
\* against a monthly budget works with the limit less the month's expenses of the
\* collection without that transaction.
C18_UnparseableDateIsSkipped ==
    /\ []FiguresSkipUnparseable
    /\ [][\A f \in PeriodPaymentInputs :
             (SimulatePayment(f[1], f[2]) /\ MonthlyBudgets(f[2]) # {}) =>
                 /\ toast'.title \in PaymentTitles \ {"No Budget Found"}
                 /\ logged' = <<MatchedLimit(f[2])
                                  - SpendAggregator(WellFormed, f[2], startOfMonth(now, tz),
                                                    endOfMonth(now, tz))>>]_vars

\* a payment has been simulated against a monthly budget over a collection that holds
\* an expense of the month and the transaction without a date: 40 spent, not 50
C18_Witness ==
    /\ toast.title = "STRICT Warning: Over Budget! (Simulation)"
    /\ toast.exceedBy = 35
    /\ logged = <<30 - 40>>
    /\ Len(transactions) = 2
    /\ \E i \in 1 .. 2 : transactions[i] = Malformed
    /\ Len(WellFormed) = 1
    /\ Len(budgets) = 1
    /\ LocalBudgetCards[1].spentAmount = 40

-----------------------------------------------------------------------------
(* C19 *)

\* the system clock, which calculateSpentAmount and PaymentsPage.onSubmit read with
\* new Date(), moves on by a day
Tick ==
    /\ now < Noon(Day(2024, 4, 2))
    /\ now' = now + 24
    /\ UNCHANGED <<tz, transactions, budgets, editingBudget, toast, logged, pctArgs, pctCard,
                   storage, formErrors, goalVars, cloudVars, pageVars>>

\* SpecClock: the pages in use from 2024-03-30 to 2024-04-02, over the end of a week
\* and of a month
ClockTxInputs ==
    {<<40, "expense", "Food", Day(2024, 3, 29)>>, <<10, "expense", "Food", Day(2024, 4, 1)>>}

InitClock == InitApp({Noon(Day(2024, 3, 30))}, {0})

NextClock ==
    \/ Tick
    \/ \E f \in ClockTxInputs : SubmitTransaction(f[1], f[2], f[3], f[4])
    \/ \E f \in PeriodBudgetInputs : SubmitBudget(f[1], f[2], f[3])
    \/ \E f \in PeriodPaymentInputs : SimulatePayment(f[1], f[2])

SpecClock == InitClock /\ [][NextClock]_vars

\* what a simulation of amount for category would report in the current state
Classification(amount, category) == SimulationOutcome(amount, category).title

\* C19: the spent figure and the progress of every budget, and the classification of a
\* payment, depend on the transactions, the budget and the category only: a step that
\* leaves the transactions and the budgets as they are, whatever time passes, leaves
\* every card and every classification as it is.
C19_AggregationIgnoresTheClock ==
    [][UNCHANGED <<transactions, budgets>> =>
          /\ LocalBudgetCards' = LocalBudgetCards
          /\ \A f \in PeriodPaymentInputs :
                Classification(f[1], f[2])' = Classification(f[1], f[2])]_vars

-----------------------------------------------------------------------------
(* C20 *)

\* the pages are opened anew (reload, or navigation back): each useLocalStorage starts
\* from the item stored under its key, each useState from its initial value
Remount ==
    /\ transactions' = ReadStorage(TransactionsKey)
    /\ budgets' = ReadStorage(BudgetsKey)
    /\ goals' = ReadStorage(GoalsKey)
    /\ editingBudget' = NoBudget
    /\ editingGoal' = NoGoal
    /\ toast' = NoToast
    /\ logged' = <<>>
    /\ formErrors' = {}
    /\ UNCHANGED <<tz, now, pctArgs, pctCard, storage, cloudVars, pageVars>>

\* SpecStore: transactions, budgets and goals are added, edited and deleted, and the
\* pages reopened, on 2024-03-10
StoreTxInputs == {<<40, "expense", "Food", Day(2024, 3, 5)>>}

StoreBudgetInputs == {<<"Food", 30, "monthly">>, <<"Food", 50, "weekly">>}

InitStore == InitApp(SpecNows, {0})

NextStore ==
    \/ \E f \in StoreTxInputs : SubmitTransaction(f[1], f[2], f[3], f[4])
    \/ \E id \in TxIds : handleDeleteTransaction(id)
    \/ \E f \in StoreBudgetInputs : SubmitBudget(f[1], f[2], f[3])
    \/ \E i \in 1 .. Len(budgets) : handleEditBudget(i)
    \/ \E id \in BudgetIds : handleDeleteBudget(id)
    \/ \E f \in GoalInputs : SubmitGoal(f[1], f[2], f[3])
    \/ \E i \in 1 .. Len(goals) : handleEditGoal(i)
    \/ \E id \in GoalIds : handleDeleteGoal(id)
    \/ Remount

SpecStore == InitStore /\ [][NextStore]_vars

-----------------------------------------------------------------------------
(* useLocalStorage: several instances in one window, and the value a setValue
   closes over.  hooks[i].storedValue is the React state of instance i and
   hooks[i].rendered the storedValue of its last render, which is the one the
   setValue of that render (useCallback over [key, serializer, storedValue])
   applies a functional update to. *)

HookPages == {HookPage(i) : i \in HookInstances}

\* the instances a page takes setValue from: BudgetsPage destructures [transactions] only
HookWriters == {"SpendingPage.transactions", "BudgetsPage.budgets"}

\* the functional updates of the pages: prev => [x, ...prev].sort(by date, newest first),
\* prev => [...prev, x], prev => prev.filter(r => r.id !== id)
ApplyUpdate(value, storedValue) ==
    CASE value.op = "prepend" -> SortByDateDesc(<<value.record>> \o storedValue)
      [] value.op = "append" -> Append(storedValue, value.record)
      [] value.op = "filter" -> SelectSeq(storedValue, LAMBDA r : r.id # value.id)

\* as dispatchStorageEvent, with no test of the key of the event
dispatchStorageEvent_AnyKey(key, text) ==
    [j \in HookInstances |->
        IF hooks[j].mounted
        THEN [hooks[j] EXCEPT !.storedValue = JSONparse(text)]
        ELSE hooks[j]]

\* window.dispatchEvent(new StorageEvent('storage', {key, newValue: text})): the listener
\* handleStorageChange of every mounted instance runs, and sets the parsed text where
\* event.key === key
dispatchStorageEvent(key, text) ==
    [j \in HookInstances |->
        IF hooks[j].mounted /\ HookKey(j) = key
        THEN [hooks[j] EXCEPT !.storedValue = JSONparse(text)]
        ELSE hooks[j]]

HookFrame ==
    UNCHANGED <<tz, now, transactions, budgets, editingBudget, toast, logged, pctArgs,
                pctCard, goalVars, formErrors, cloudVars, processing, spending, auth,
                pathname, dashboard>>

\* a page is mounted: the useState initializer of each of its instances reads the storage
HookMount(page) ==
    /\ \E i \in HookInstances : HookPage(i) = page /\ ~hooks[i].mounted
    /\ hooks' = [i \in HookInstances |->
                    IF HookPage(i) = page
                    THEN [mounted |-> TRUE,
                          storedValue |-> ReadStorage(HookKey(i)),
                          rendered |-> ReadStorage(HookKey(i))]
                    ELSE hooks[i]]
    /\ UNCHANGED storage
    /\ HookFrame

\* a page is unmounted: the listeners of its instances are removed
HookUnmount(page) ==
    /\ \E i \in HookInstances : HookPage(i) = page /\ hooks[i].mounted
    /\ hooks' = [i \in HookInstances |-> IF HookPage(i) = page THEN Unmounted ELSE hooks[i]]
    /\ UNCHANGED storage
    /\ HookFrame

\* the component of instance i renders again: setValue is rebuilt over the new storedValue
HookRender(i) ==
    /\ hooks[i].mounted
    /\ hooks[i].rendered # hooks[i].storedValue
    /\ hooks' = [hooks EXCEPT ![i].rendered = hooks[i].storedValue]
    /\ UNCHANGED storage
    /\ HookFrame

\* setValue(value) of instance i, value a function: value(storedValue) is computed from
\* the storedValue of the last render, set, stored, and announced by a storage event
HookSetValue(i, value) ==
    /\ hooks[i].mounted
    /\ LET newValue == ApplyUpdate(value, hooks[i].rendered)
       IN  /\ Len(newValue) <= MaxTx
           /\ hooks' = dispatchStorageEvent(HookKey(i), JSONstringify(newValue))
           /\ storage' = setItem(HookKey(i), newValue)
    /\ HookFrame

HookRecords == {[id |-> 1, date |-> Day(2024, 3, 5)], [id |-> 2, date |-> Day(2024, 3, 9)]}

\* the updates a page issues on an instance: a record is added under an id not in use
HookUpdates(i) ==
    LET used == {hooks[i].rendered[k].id : k \in 1 .. Len(hooks[i].rendered)}
        add == IF i = "SpendingPage.transactions" THEN "prepend" ELSE "append"
    IN  {[op |-> add, record |-> r, id |-> r.id] : r \in {x \in HookRecords : x.id \notin used}}
            \cup {[op |-> "filter", record |-> r, id |-> r.id] : r \in HookRecords}

InitHooks == InitApp(SpecNows, {0})

NextHooks ==
    \/ \E page \in HookPages : HookMount(page)
    \/ \E page \in HookPages : HookUnmount(page)
    \/ \E i \in HookInstances : HookRender(i)
    \/ \E i \in HookWriters : \E value \in HookUpdates(i) : HookSetValue(i, value)

\* the hook alone: pages mount and unmount, render, and update their instances
SpecHooks == InitHooks /\ [][NextHooks]_vars

C22_NoUpdateIsLost ==
    [][\A i \in HookWriters : \A value \in HookUpdates(i) :
          HookSetValue(i, value) =>
              /\ hooks'[i].storedValue = ApplyUpdate(value, hooks[i].storedValue)
              /\ ReadStorage(HookKey(i))' = ApplyUpdate(value, hooks[i].storedValue)]_vars


-----------------------------------------------------------------------------
(* SpendingPage (cloud): the requests in flight.  transactions is the Firestore
   collection, spending.transactions the list on the page, spending.requests
   the addTransaction, deleteTransaction and getTransactions calls that have
   not settled.  A getTransactions reads the collection at some moment between
   its call and its answer; the answers of different calls come in any order. *)

MaxRequests == 2

NoData == [amount |-> 0, type |-> "", category |-> "", date |-> 0]

Request(n, kind, data, id) ==
    [n |-> n, kind |-> kind, data |-> data, id |-> id, read |-> FALSE, docs |-> <<>>]

\* addDoc: a collection holds its documents in the order of their ids
AddDoc(docs, doc) ==
    LET before == SelectSeq(docs, LAMBDA d : d.id < doc.id)
        after == SelectSeq(docs, LAMBDA d : d.id > doc.id)
    IN  before \o <<doc>> \o after

RequestNumbers == {r.n : r \in spending.requests}

ShownTxIds == {spending.transactions[i].id : i \in 1 .. Len(spending.transactions)}

\* getTransactions: query(transactionsCol, orderBy('date', 'desc'))
getTransactions(txs) == SortByDateDesc(txs)

\* fetchUserTransactions up to its await: the call is in flight
fetchUserTransactions(requests) ==
    requests \cup {Request(generateId({r.n : r \in requests}), "fetch", NoData, 0)}

SpendingFrame ==
    UNCHANGED <<tz, now, budgets, editingBudget, logged, pctArgs, pctCard, storage,
                formErrors, goalVars, cloudVars, processing, hooks, auth, pathname,
                dashboard>>

\* onSubmit up to its await; the submit button is disabled while isLoading
SpendingOnSubmit(amount, type, category, pickedDay) ==
    /\ pathname = "/spending"
    /\ ~spending.isLoading
    /\ Cardinality(spending.requests) < MaxRequests
    /\ transactionSchema(amount, type, category)
    /\ LET transactionData ==
               [amount |-> amount, type |-> type, category |-> category,
                date |-> formatYMD(LocalMidnight(pickedDay, tz), tz)]
           n == generateId(RequestNumbers)
       IN  spending' = [spending EXCEPT
                           !.isLoading = TRUE,
                           !.requests = @ \cup {Request(n, "add", transactionData, 0)}]
    /\ UNCHANGED <<transactions, toast>>
    /\ SpendingFrame

\* handleDeleteTransaction up to its await; the delete buttons are disabled while isLoading
SpendingOnDelete(id) ==
    /\ pathname = "/spending"
    /\ ~spending.isLoading
    /\ Cardinality(spending.requests) < MaxRequests
    /\ id \in ShownTxIds
    /\ spending' = [spending EXCEPT
                       !.isLoading = TRUE,
                       !.requests = @ \cup {Request(generateId(RequestNumbers), "delete",
                                                    NoData, id)}]
    /\ UNCHANGED <<transactions, toast>>
    /\ SpendingFrame

\* addTransaction / deleteTransaction resolves: the collection is written, the handler
\* shows its toast, starts fetchUserTransactions without awaiting it, and its finally
\* clears isLoading
WriteResolves(r) ==
    /\ r \in spending.requests
    /\ r.kind \in {"add", "delete"}
    /\ IF r.kind = "add"
       THEN /\ Len(transactions) < MaxTx
            /\ transactions' = AddDoc(transactions,
                                      [id |-> generateId(TxIds \cup ShownTxIds),
                                       amount |-> r.data.amount, type |-> r.data.type,
                                       category |-> r.data.category, date |-> r.data.date])
            /\ toast' = Toast("Transaction Added", "default", r.data.amount,
                              r.data.category, 0)
       ELSE /\ transactions' = SelectSeq(transactions, LAMBDA t : t.id # r.id)
            /\ toast' = Toast("Transaction Deleted", "default", 0, None, 0)
    /\ spending' = [spending EXCEPT
                       !.isLoading = FALSE,
                       !.requests = fetchUserTransactions(@ \ {r})]
    /\ SpendingFrame

\* addTransaction / deleteTransaction rejects: the catch shows a toast, nothing is
\* fetched, and the finally clears isLoading
WriteRejects(r) ==
    /\ r \in spending.requests
    /\ r.kind \in {"add", "delete"}
    /\ toast' = Toast("Error", "destructive", 0, None, 0)
    /\ spending' = [spending EXCEPT !.isLoading = FALSE, !.requests = @ \ {r}]
    /\ UNCHANGED transactions
    /\ SpendingFrame

\* the server answers a getTransactions from the collection as it is at that moment
ServerReads(r) ==
    /\ r \in spending.requests
    /\ r.kind = "fetch"
    /\ ~r.read
    /\ spending' = [spending EXCEPT
                       !.requests = (@ \ {r}) \cup
                           {[r EXCEPT !.read = TRUE, !.docs = getTransactions(transactions)]}]
    /\ UNCHANGED <<transactions, toast>>
    /\ SpendingFrame

\* as SpendingFetchRejects, with the list cleared by the catch
SpendingFetchRejects_ClearsList(r) ==
    /\ r \in spending.requests
    /\ r.kind = "fetch"
    /\ toast' = Toast("Error", "destructive", 0, None, 0)
    /\ spending' = [transactions |-> <<>>, isLoading |-> FALSE,
                    requests |-> spending.requests \ {r}]
    /\ UNCHANGED transactions
    /\ SpendingFrame

\* fetchUserTransactions: getTransactions rejects; the catch shows a toast and the
\* finally clears isLoading
SpendingFetchRejects(r) ==
    /\ r \in spending.requests
    /\ r.kind = "fetch"
    /\ toast' = Toast("Error", "destructive", 0, None, 0)
    /\ spending' = [spending EXCEPT !.isLoading = FALSE, !.requests = @ \ {r}]
    /\ UNCHANGED transactions
    /\ SpendingFrame

\* fetchUserTransactions: the answer arrives; the documents are sorted by date, newest
\* first, and set, and the finally clears isLoading
SpendingFetchResolves(r) ==
    /\ r \in spending.requests
    /\ r.kind = "fetch"
    /\ r.read
    /\ spending' = [transactions |-> SortByDateDesc(r.docs), isLoading |-> FALSE,
                    requests |-> spending.requests \ {r}]
    /\ UNCHANGED <<transactions, toast>>
    /\ SpendingFrame

RaceTxInputs == {<<40, "expense", "Food", Day(2024, 3, 5)>>}

\* the page has just been mounted by a signed-in user: its effect has called
\* fetchUserTransactions
InitRace ==
    /\ tz = 0
    /\ now \in SpecNows
    /\ transactions = <<>>
    /\ budgets = <<>>
    /\ editingBudget = NoBudget
    /\ toast = NoToast
    /\ logged = <<>>
    /\ pctArgs = <<0, 0>>
    /\ pctCard = NoCard
    /\ goals = <<>>
    /\ editingGoal = NoGoal
    /\ storage = [k \in StorageKeys |-> NoItem]
    /\ formErrors = {}
    /\ budgetDetails = <<>>
    /\ fetchPending = FALSE
    /\ hooks = [i \in HookInstances |-> Unmounted]
    /\ processing = NoRequest
    /\ spending = [SpendingInitial EXCEPT !.requests = fetchUserTransactions({})]
    /\ auth = [currentUser |-> "uid", loading |-> FALSE]
    /\ pathname = "/spending"
    /\ dashboard = DashboardInitial

NextRace ==
    \/ \E f \in RaceTxInputs : SpendingOnSubmit(f[1], f[2], f[3], f[4])
    \/ \E id \in ShownTxIds : SpendingOnDelete(id)
    \/ \E r \in spending.requests : WriteResolves(r)
    \/ \E r \in spending.requests : ServerReads(r)
    \/ \E r \in spending.requests : SpendingFetchResolves(r)

\* the cloud spending page when every request succeeds
SpecRace == InitRace /\ [][NextRace]_vars

\* C23: once no request is in flight, the list on the page is the content of the
\* collection (newest first)
C23_SettledListIsTheStore ==
    spending.requests = {} => spending.transactions = getTransactions(transactions)


-----------------------------------------------------------------------------
(* DashboardPage: fetchData and the monthly budget card.  transactions and
   budgets are the Firestore collections, dashboard the state of the page. *)

\* date-fns subMonths: the same local day of the month and time of day, amount months
\* earlier, the day held back to the last day of a shorter month
subMonths(t, amount, z) ==
    LET day == LocalDay(t, z)
        y == YearOf(day)
        m == MonthOf(day)
        d == day - MonthStart(y, m) + 1
        months == 12 * y + (m - 1) - amount
        y2 == months \div 12
        m2 == (months % 12) + 1
        d2 == IF d > DaysInMonth(y2, m2) THEN DaysInMonth(y2, m2) ELSE d
    IN  24 * Day(y2, m2, d2) - z + ((t + z) % 24)

\* getTransactionsForDashboard: where date >= startDate and date <= endDate, the date
\* field being Timestamp.fromDate(new Date(date)) and coming back as the same string
getTransactionsForDashboard(txs, startDate, endDate) ==
    SelectSeq(txs, LAMBDA t : /\ startDate <= NewDateFromString(t.date)
                              /\ NewDateFromString(t.date) <= endDate)

DashboardFrame ==
    UNCHANGED <<tz, now, transactions, budgets, editingBudget, logged, pctArgs, pctCard,
                storage, formErrors, goalVars, cloudVars, processing, hooks, spending,
                auth, pathname>>

\* the page is opened: its state is the initial one and its effect calls fetchData
DashboardMount ==
    /\ pathname = "/dashboard"
    /\ auth.currentUser # NoUser
    /\ dashboard' = DashboardInitial
    /\ UNCHANGED toast
    /\ DashboardFrame

\* fetchData: both reads resolve
DashboardFetchResolves ==
    /\ pathname = "/dashboard"
    /\ auth.currentUser # NoUser
    /\ dashboard.isLoading
    /\ LET sixMonthsAgo == startOfMonth(subMonths(now, 5, tz), tz)
           endOfCurrentMonth == endOfMonth(now, tz)
       IN  dashboard' =
               [transactions |-> getTransactionsForDashboard(transactions, sixMonthsAgo,
                                                             endOfCurrentMonth),
                budgets |-> budgets,
                isLoading |-> FALSE]
    /\ UNCHANGED toast
    /\ DashboardFrame

\* fetchData: a read rejects; the catch logs, the finally clears isLoading
DashboardFetchRejects ==
    /\ pathname = "/dashboard"
    /\ auth.currentUser # NoUser
    /\ dashboard.isLoading
    /\ dashboard' = [dashboard EXCEPT !.isLoading = FALSE]
    /\ UNCHANGED toast
    /\ DashboardFrame

\* the card rendered from the state of the page
DashboardCard == currentMonthBudget(dashboard.transactions, dashboard.budgets, now, tz)

DashNows == {Noon(Day(2024, 3, 10)), 24 * Day(2024, 3, 1) + 2, 24 * Day(2024, 3, 31) + 22}

DashTxInputs ==
    ({<<40, "expense", "Food">>}
         \X {Day(2024, 2, 29), Day(2024, 3, 1), Day(2024, 3, 31), Day(2024, 4, 1)})
        \cup {<<<<10, "expense", "Transport">>, Day(2024, 3, 1)>>,
              <<<<7, "income", "Salary">>, Day(2024, 3, 31)>>}

\* the budget collections the dashboard is opened on
DashBudgets ==
    {<<>>,
     <<[id |-> 1, category |-> "Food", limit |-> 30, period |-> "monthly"]>>,
     <<[id |-> 1, category |-> "Food", limit |-> 30, period |-> "monthly"],
       [id |-> 2, category |-> "Food", limit |-> 30, period |-> "monthly"]>>,
     <<[id |-> 1, category |-> "Food", limit |-> 20, period |-> "weekly"],
       [id |-> 2, category |-> "Travel", limit |-> 200, period |-> "yearly"]>>,
     <<[id |-> 1, category |-> "Food", limit |-> 30, period |-> "monthly"],
       [id |-> 2, category |-> "Food", limit |-> 20, period |-> "weekly"]>>}

InitDash ==
    /\ tz \in TZOffsets
    /\ now \in DashNows
    /\ transactions = <<>>
    /\ budgets \in DashBudgets
    /\ editingBudget = NoBudget
    /\ toast = NoToast
    /\ logged = <<>>
    /\ pctArgs = <<0, 0>>
    /\ pctCard = NoCard
    /\ goals = <<>>
    /\ editingGoal = NoGoal
    /\ storage = [k \in StorageKeys |-> NoItem]
    /\ formErrors = {}
    /\ budgetDetails = <<>>
    /\ fetchPending = FALSE
    /\ hooks = [i \in HookInstances |-> Unmounted]
    /\ processing = NoRequest
    /\ spending = SpendingInitial
    /\ auth = [currentUser |-> "uid", loading |-> FALSE]
    /\ pathname = "/dashboard"
    /\ dashboard = DashboardInitial

NextDash ==
    \/ \E f \in DashTxInputs : CloudAddTransaction(f[1][1], f[1][2], f[1][3], f[2])
    \/ DashboardMount
    \/ DashboardFetchResolves
    \/ DashboardFetchRejects

\* the dashboard of a signed-in user, over a collection the spending page adds to
SpecDash == InitDash /\ [][NextDash]_vars

\* the positions of the expenses dated in the calendar month of today
ExpensesOfTheMonth(txs) ==
    {i \in 1 .. Len(txs) :
        /\ txs[i].type = "expense"
        /\ FirstDayOfMonth(Today) <= txs[i].date
        /\ txs[i].date <= LastDayOfMonth(Today)}

\* the positions of the monthly budgets
MonthlyPositions(bs) == {i \in 1 .. Len(bs) : bs[i].period = "monthly"}

RECURSIVE SumOfLimits(_, _)
SumOfLimits(bs, S) ==
    IF S = {} THEN 0
    ELSE LET i == CHOOSE i \in S : TRUE
         IN  bs[i].limit + SumOfLimits(bs, S \ {i})

\* C26: the card shows spent = the sum of the expenses of the current calendar month,
\* whatever their category; limit = the sum of the limits of the monthly budgets, each
\* duplicate counted; progress = calculatePercentage(spent, limit), 0 with no monthly
\* budget.  What a fetch puts on the page holds every expense of the month in the collection.
C26_MonthlyBudgetCard ==
    /\ [](/\ DashboardCard.spent
                 = SumOfAmounts(dashboard.transactions,
                                ExpensesOfTheMonth(dashboard.transactions))
          /\ DashboardCard.limit
                 = SumOfLimits(dashboard.budgets, MonthlyPositions(dashboard.budgets))
          /\ DashboardCard.progress
                 = calculatePercentage(DashboardCard.spent, DashboardCard.limit)
          /\ (MonthlyPositions(dashboard.budgets) = {} => DashboardCard.progress = 0))
    /\ [][DashboardFetchResolves =>
              SumOfAmounts(dashboard'.transactions, ExpensesOfTheMonth(dashboard'.transactions))
                  = SumOfAmounts(transactions, ExpensesOfTheMonth(transactions))]_vars

\* west of Greenwich, with an expense of another category on the first day of the month
\* and one on the first day of the next, a duplicated monthly budget: 10 of 60 is 17 %
C26_Witness ==
    /\ tz < 0
    /\ ~dashboard.isLoading
    /\ Len(dashboard.transactions) = 2
    /\ Len(dashboard.budgets) = 2
    /\ DashboardCard = [spent |-> 10, limit |-> 60, progress |-> 17]


-----------------------------------------------------------------------------
(* The cloud pages of a signed-in user, each from the moment it is opened, with
   every request in flight until it resolves or rejects.  On the budgets page
   processing is the addBudget, updateBudget or deleteBudget awaited while
   isProcessing is true. *)

isProcessing == processing # NoRequest

BudgetsFrame ==
    UNCHANGED <<tz, now, transactions, logged, pctArgs, pctCard, storage, formErrors,
                goalVars, hooks, spending, auth, pathname, dashboard>>

\* onSubmit up to its await; the submit button is disabled while isLoading or
\* isProcessing, the category select while a budget is edited
BudgetsOnSubmit(category, limit, period) ==
    /\ pathname = "/budgets"
    /\ ~fetchPending
    /\ ~isProcessing
    /\ budgetSchema(category, limit, period)
    /\ editingBudget # NoBudget => category = editingBudget.category
    /\ processing' = [kind |-> IF editingBudget # NoBudget THEN "update" ELSE "add",
                      category |-> category, limit |-> limit, period |-> period,
                      id |-> editingBudget.id]
    /\ UNCHANGED <<budgets, editingBudget, toast, budgetDetails, fetchPending>>
    /\ BudgetsFrame

\* handleDeleteBudget up to its await; the buttons of a card are disabled while isProcessing
BudgetsOnDelete(id) ==
    /\ pathname = "/budgets"
    /\ ~isProcessing
    /\ id \in DetailIds
    /\ processing' = [NoRequest EXCEPT !.kind = "delete", !.id = id]
    /\ UNCHANGED <<budgets, editingBudget, toast, budgetDetails, fetchPending>>
    /\ BudgetsFrame

\* handleEditBudget, from the button of a card
BudgetsOnEdit(i) ==
    /\ pathname = "/budgets"
    /\ ~isProcessing
    /\ CloudEditBudget(i)

\* the awaited write resolves (updateDoc only for a document that is there): the toast,
\* fetchUserBudgetsAndDetails started and not awaited, and the finally
BudgetWriteResolves ==
    /\ isProcessing
    /\ CASE processing.kind = "add" ->
                /\ Len(budgets) < MaxBudgets
                /\ budgets' = AddDoc(budgets,
                                     [id |-> generateId(BudgetIds \cup DetailIds),
                                      category |-> processing.category,
                                      limit |-> processing.limit,
                                      period |-> processing.period])
                /\ toast' = Toast("Budget Added", "default", 0, processing.category, 0)
                /\ UNCHANGED editingBudget
         [] processing.kind = "update" ->
                /\ \E i \in 1 .. Len(budgets) : budgets[i].id = processing.id
                /\ budgets' = [i \in 1 .. Len(budgets) |->
                                  IF budgets[i].id = processing.id
                                  THEN [id |-> processing.id,
                                        category |-> processing.category,
                                        limit |-> processing.limit,
                                        period |-> processing.period]
                                  ELSE budgets[i]]
                /\ toast' = Toast("Budget Updated", "default", 0, processing.category, 0)
                /\ editingBudget' = NoBudget
         [] processing.kind = "delete" ->
                /\ budgets' = SelectSeq(budgets, LAMBDA b : b.id # processing.id)
                /\ toast' = Toast("Budget Deleted", "default", 0, None, 0)
                /\ UNCHANGED editingBudget
    /\ fetchPending' = TRUE
    /\ processing' = NoRequest
    /\ UNCHANGED budgetDetails
    /\ BudgetsFrame

\* the awaited write rejects: the catch shows a toast, and the finally
BudgetWriteRejects ==
    /\ isProcessing
    /\ toast' = Toast("Error", "destructive", 0, None, 0)
    /\ processing' = NoRequest
    /\ UNCHANGED <<budgets, editingBudget, budgetDetails, fetchPending>>
    /\ BudgetsFrame

CloudPages == {"/dashboard", "/spending", "/budgets"}

\* a request of the spending page, of the budgets page (read, write), of the dashboard settles
SpendingSettles ==
    \E r \in spending.requests :
        \/ WriteResolves(r)
        \/ WriteRejects(r)
        \/ ServerReads(r)
        \/ SpendingFetchResolves(r)
        \/ SpendingFetchRejects(r)

BudgetsFetchSettles == FetchResolves \/ FetchFails

BudgetsWriteSettles == BudgetWriteResolves \/ BudgetWriteRejects

DashboardSettles == DashboardFetchResolves \/ DashboardFetchRejects

\* the user starts an add or a delete when nothing is in flight (overlapping requests
\* are the subject of SpecRace)
NothingInFlight == spending.requests = {}

SettleTxInputs == {<<40, "expense", "Food", Day(2024, 3, 5)>>}

SettleBudgetInputs == {<<"Food", 30, "monthly">>}

\* one of the pages has just been opened; the dashboard may find documents stored
InitSettle ==
    /\ pathname \in CloudPages
    /\ tz = 0
    /\ now \in SpecNows
    /\ transactions \in
           (IF pathname = "/dashboard"
            THEN {<<>>, <<[id |-> 1, amount |-> 40, type |-> "expense", category |-> "Food",
                          date |-> Day(2024, 3, 5)]>>}
            ELSE {<<>>})
    /\ budgets \in
           (IF pathname = "/dashboard"
            THEN {<<>>, <<[id |-> 1, category |-> "Food", limit |-> 30, period |-> "monthly"]>>}
            ELSE {<<>>})
    /\ editingBudget = NoBudget
    /\ toast = NoToast
    /\ logged = <<>>
    /\ pctArgs = <<0, 0>>
    /\ pctCard = NoCard
    /\ goals = <<>>
    /\ editingGoal = NoGoal
    /\ storage = [k \in StorageKeys |-> NoItem]
    /\ formErrors = {}
    /\ budgetDetails = <<>>
    /\ hooks = [i \in HookInstances |-> Unmounted]
    /\ processing = NoRequest
    /\ auth = [currentUser |-> "uid", loading |-> FALSE]
    /\ fetchPending = (pathname = "/budgets")
    /\ spending = IF pathname = "/spending"
                  THEN [SpendingInitial EXCEPT !.requests = fetchUserTransactions({})]
                  ELSE SpendingInitial
    /\ dashboard = DashboardInitial

NextSettle ==
    \/ NothingInFlight /\ \E f \in SettleTxInputs : SpendingOnSubmit(f[1], f[2], f[3], f[4])
    \/ NothingInFlight /\ \E id \in ShownTxIds : SpendingOnDelete(id)
    \/ SpendingSettles
    \/ \E f \in SettleBudgetInputs : BudgetsOnSubmit(f[1], f[2], f[3])
    \/ \E id \in DetailIds : BudgetsOnDelete(id)
    \/ \E i \in 1 .. Len(budgetDetails) : BudgetsOnEdit(i)
    \/ BudgetsFetchSettles
    \/ BudgetsWriteSettles
    \/ DashboardMount
    \/ DashboardSettles

\* every request in flight resolves or rejects in the end: a promise that is awaited settles
SpecSettle ==
    /\ InitSettle
    /\ [][NextSettle]_vars
    /\ WF_vars(SpendingSettles)
    /\ WF_vars(BudgetsFetchSettles)
    /\ WF_vars(BudgetsWriteSettles)
    /\ WF_vars(DashboardSettles)

-----------------------------------------------------------------------------
(* AppLayout: the auth guard.  auth is what useAuth returns, pathname what
   usePathname returns. *)

\* the paths of navItems, and the auth page
Paths == CloudPages \cup {"/financial-goals", "/ai-advisor", "/payments", "/auth"}

\* as AppLayout, without the second early return
AppLayout_NoFallback ==
    IF auth.loading THEN "loader"
    ELSE IF auth.currentUser = NoUser /\ pathname = "/auth" THEN "children"
    ELSE "layout"

\* what AppLayout returns: the spinner, the children alone (the auth page of a
\* signed-out user), or the sidebar layout around the children
AppLayout ==
    IF auth.loading THEN "loader"
    ELSE IF auth.currentUser = NoUser /\ pathname # "/auth" THEN "loader"
    ELSE IF auth.currentUser = NoUser /\ pathname = "/auth" THEN "children"
    ELSE "layout"

\* AuthPage: the spinner while auth is loading or a user is signed in, else the forms
AuthPage == IF auth.loading \/ auth.currentUser # NoUser THEN "loader" ELSE "forms"

AuthFrame ==
    UNCHANGED <<tz, now, transactions, budgets, editingBudget, logged, pctArgs, pctCard,
                storage, formErrors, goalVars, cloudVars, processing, hooks, spending>>

\* the auth provider reports the first auth state: a user, or none
onAuthStateChanged(user) ==
    /\ auth.loading
    /\ auth' = [currentUser |-> user, loading |-> FALSE]
    /\ UNCHANGED <<pathname, dashboard, toast>>
    /\ AuthFrame

\* AuthPage onSubmit: signInWithEmailAndPassword / createUserWithEmailAndPassword resolves
SignIn ==
    /\ pathname = "/auth"
    /\ AppLayout = "children"
    /\ AuthPage = "forms"
    /\ auth' = [auth EXCEPT !.currentUser = "uid"]
    /\ toast' = Toast("Logged In", "default", 0, None, 0)
    /\ UNCHANGED <<pathname, dashboard>>
    /\ AuthFrame

\* AuthPage onSubmit: the call rejects
SignInFails ==
    /\ pathname = "/auth"
    /\ AppLayout = "children"
    /\ AuthPage = "forms"
    /\ toast' = Toast("Authentication Error", "destructive", 0, None, 0)
    /\ UNCHANGED <<auth, pathname, dashboard>>
    /\ AuthFrame

\* handleLogout, from the sidebar; the page under the layout is unmounted
handleLogout ==
    /\ AppLayout = "layout"
    /\ auth.currentUser # NoUser
    /\ auth' = [auth EXCEPT !.currentUser = NoUser]
    /\ toast' = Toast("Logged Out", "default", 0, None, 0)
    /\ dashboard' = DashboardInitial
    /\ UNCHANGED pathname
    /\ AuthFrame

\* the user opens a path (a link of the sidebar, or the address bar)
Navigate(p) ==
    /\ p \in Paths \ {pathname}
    /\ pathname' = p
    /\ dashboard' = DashboardInitial
    /\ UNCHANGED <<auth, toast>>
    /\ AuthFrame

\* the effect of AppLayout (and, for a signed-in user on /auth, of AuthPage): redirect
AppLayoutEffect ==
    /\ ~auth.loading
    /\ \/ /\ auth.currentUser = NoUser
          /\ pathname # "/auth"
          /\ pathname' = "/auth"
       \/ /\ auth.currentUser # NoUser
          /\ pathname = "/auth"
          /\ pathname' = "/dashboard"
    /\ dashboard' = DashboardInitial
    /\ UNCHANGED <<auth, toast>>
    /\ AuthFrame

\* the app is opened on any path, the auth state not yet known, over a stored collection
InitAuth ==
    /\ tz = 0
    /\ now \in SpecNows
    /\ transactions \in {<<>>, <<[id |-> 1, amount |-> 40, type |-> "expense",
                                 category |-> "Food", date |-> Day(2024, 3, 5)]>>}
    /\ budgets \in {<<>>, <<[id |-> 1, category |-> "Food", limit |-> 30,
                            period |-> "monthly"]>>}
    /\ editingBudget = NoBudget
    /\ toast = NoToast
    /\ logged = <<>>
    /\ pctArgs = <<0, 0>>
    /\ pctCard = NoCard
    /\ goals = <<>>
    /\ editingGoal = NoGoal
    /\ storage = [k \in StorageKeys |-> NoItem]
    /\ formErrors = {}
    /\ budgetDetails = <<>>
    /\ fetchPending = FALSE
    /\ hooks = [i \in HookInstances |-> Unmounted]
    /\ processing = NoRequest
    /\ spending = SpendingInitial
    /\ auth = [currentUser |-> NoUser, loading |-> TRUE]
    /\ pathname \in Paths
    /\ dashboard = DashboardInitial

NextAuth ==
    \/ \E user \in {NoUser, "uid"} : onAuthStateChanged(user)
    \/ SignIn
    \/ SignInFails
    \/ handleLogout
    \/ \E p \in Paths : Navigate(p)
    \/ AppLayoutEffect
    \/ AppLayout = "layout" /\ DashboardFetchResolves
    \/ AppLayout = "layout" /\ DashboardFetchRejects

\* the layout around the auth page and the dashboard
SpecAuth == InitAuth /\ [][NextAuth]_vars

\* C25: children are rendered only when auth has finished loading and a user is signed in
\* or the path is /auth; the dashboard holds fetched documents only for a signed-in user;
\* the redirect is due for a signed-out user off /auth and a signed-in user on /auth, and
\* takes the first to /auth and the second to /dashboard
C25_AuthGuard ==
    /\ [](AppLayout # "loader"
             => ~auth.loading /\ (auth.currentUser # NoUser \/ pathname = "/auth"))
    /\ [](dashboard # DashboardInitial => auth.currentUser # NoUser)
    /\ []((~auth.loading /\ (auth.currentUser = NoUser <=> pathname # "/auth"))
             => ENABLED AppLayoutEffect)
    /\ [][AppLayoutEffect =>
              /\ auth.currentUser = NoUser => pathname' = "/auth"
              /\ auth.currentUser # NoUser => pathname' = "/dashboard"]_vars

\* a user who has logged out on the dashboard: signed out on a protected path, with the
\* spinner in place of the page
C25_Witness ==
    /\ toast.title = "Logged Out"
    /\ auth = [currentUser |-> NoUser, loading |-> FALSE]
    /\ pathname = "/dashboard"
    /\ AppLayout = "loader"
    /\ transactions # <<>>


-----------------------------------------------------------------------------
(* Editing a record that is deleted meanwhile: the budgets and goals pages over
   local storage, and the budgets page over Firestore.  The two builds of the
   budgets page are told apart by the signed-in user the cloud build requires. *)

LocalBuild == auth.currentUser = NoUser

StoredGoals ==
    <<[id |-> 1, targetAmount |-> 100, currentAmount |-> 20, deadline |-> Day(2024, 12, 31)],
      [id |-> 2, targetAmount |-> 50, currentAmount |-> 0]>>

StaleBudgetInputs == {<<"Food", 50, "monthly">>, <<"Other", 20, "weekly">>}

\* two budgets and two goals are stored, and the budgets page has just been opened
InitStale ==
    /\ auth \in {[currentUser |-> NoUser, loading |-> FALSE],
                 [currentUser |-> "uid", loading |-> FALSE]}
    /\ tz = 0
    /\ now \in SpecNows
    /\ transactions = <<>>
    /\ budgets = StoredBudgets
    /\ goals = IF LocalBuild THEN StoredGoals ELSE <<>>
    /\ storage = [k \in StorageKeys |->
                     IF ~LocalBuild \/ k = TransactionsKey THEN NoItem
                     ELSE IF k = BudgetsKey THEN Item(JSONstringify(budgets))
                     ELSE Item(JSONstringify(goals))]
    /\ editingBudget = NoBudget
    /\ editingGoal = NoGoal
    /\ toast = NoToast
    /\ logged = <<>>
    /\ pctArgs = <<0, 0>>
    /\ pctCard = NoCard
    /\ formErrors = {}
    /\ budgetDetails = <<>>
    /\ fetchPending = ~LocalBuild
    /\ hooks = [i \in HookInstances |-> Unmounted]
    /\ processing = NoRequest
    /\ spending = SpendingInitial
    /\ pathname = "/budgets"
    /\ dashboard = DashboardInitial

NextStale ==
    \/ LocalBuild /\ \E f \in StaleBudgetInputs : SubmitBudget(f[1], f[2], f[3])
    \/ LocalBuild /\ \E i \in 1 .. Len(budgets) : handleEditBudget(i)
    \/ LocalBuild /\ \E id \in BudgetIds : handleDeleteBudget(id)
    \/ LocalBuild /\ \E f \in GoalInputs : SubmitGoal(f[1], f[2], f[3])
    \/ LocalBuild /\ \E i \in 1 .. Len(goals) : handleEditGoal(i)
    \/ LocalBuild /\ \E id \in GoalIds : handleDeleteGoal(id)
    \/ ~LocalBuild /\ \E f \in StaleBudgetInputs : BudgetsOnSubmit(f[1], f[2], f[3])
    \/ ~LocalBuild /\ \E i \in 1 .. Len(budgetDetails) : BudgetsOnEdit(i)
    \/ ~LocalBuild /\ \E id \in DetailIds : BudgetsOnDelete(id)
    \/ ~LocalBuild /\ BudgetsWriteSettles
    \/ ~LocalBuild /\ BudgetsFetchSettles

SpecStale == InitStale /\ [][NextStale]_vars

\* the ids of the records of a collection
IdsOf(records) == {records[i].id : i \in 1 .. Len(records)}

\* C27: a submit of the edit form for a budget or goal that is no longer in the
\* collection leaves the collection, and what is stored, as the delete left it
C27_EditOfDeletedChangesNothing ==
    [][/\ \A f \in StaleBudgetInputs :
             (/\ editingBudget # NoBudget
              /\ editingBudget.id \notin IdsOf(budgets)
              /\ SubmitBudget(f[1], f[2], f[3]))
                 => budgets' = budgets /\ ReadStorage(BudgetsKey)' = budgets
       /\ \A f \in GoalInputs :
             (/\ editingGoal # NoGoal
              /\ editingGoal.id \notin IdsOf(goals)
              /\ SubmitGoal(f[1], f[2], f[3]))
                 => goals' = goals /\ ReadStorage(GoalsKey)' = goals
       /\ (/\ processing.kind = "update"
           /\ processing.id \notin IdsOf(budgets)
           /\ BudgetsWriteSettles)
              => budgets' = budgets /\ budgetDetails' = budgetDetails]_vars

\* the Food budget was deleted while its edit form was open and the form was submitted:
\* the toast names Food, and only the other budget is there, as it was
C27_Witness ==
    /\ LocalBuild
    /\ toast = Toast("Budget Updated", "default", 0, "Food", 0)
    /\ editingBudget = NoBudget
    /\ budgets = <<StoredBudgets[2]>>
    /\ ReadStorage(BudgetsKey) = budgets


-----------------------------------------------------------------------------
(* The order of the transaction list: the spending page over local storage, and the
   spending page over Firestore for a signed-in user *)

SortedTxInputs ==
    {<<40, "expense", "Food", Day(2024, 3, 5)>>, <<10, "expense", "Food", Day(2024, 2, 20)>>,
     <<10, "income", "Other", Day(2024, 3, 9)>>}

\* what the form of the Firestore page is filled with: the later date and the earlier
SortedCloudInputs ==
    {<<40, "expense", "Food", Day(2024, 3, 5)>>, <<10, "expense", "Food", Day(2024, 2, 20)>>}

\* the spending page has just been opened and nothing is stored
InitSorted ==
    /\ auth \in {[currentUser |-> NoUser, loading |-> FALSE],
                 [currentUser |-> "uid", loading |-> FALSE]}
    /\ tz \in {0 - 5, 0}
    /\ now \in SpecNows
    /\ transactions = <<>>
    /\ budgets = <<>>
    /\ editingBudget = NoBudget
    /\ toast = NoToast
    /\ logged = <<>>
    /\ pctArgs = <<0, 0>>
    /\ pctCard = NoCard
    /\ goals = <<>>
    /\ editingGoal = NoGoal
    /\ storage = [k \in StorageKeys |-> NoItem]
    /\ formErrors = {}
    /\ budgetDetails = <<>>
    /\ fetchPending = FALSE
    /\ hooks = [i \in HookInstances |-> Unmounted]
    /\ processing = NoRequest
    /\ spending = IF LocalBuild THEN SpendingInitial
                  ELSE [SpendingInitial EXCEPT !.requests = fetchUserTransactions({})]
    /\ pathname = "/spending"
    /\ dashboard = DashboardInitial

NextSorted ==
    \/ LocalBuild /\ \E f \in SortedTxInputs : SubmitTransaction(f[1], f[2], f[3], f[4])
    \/ LocalBuild /\ \E id \in TxIds : handleDeleteTransaction(id)
    \/ ~LocalBuild /\ NothingInFlight
          /\ \E f \in SortedCloudInputs : SpendingOnSubmit(f[1], f[2], f[3], f[4])
    \/ ~LocalBuild /\ NothingInFlight /\ \E id \in ShownTxIds : SpendingOnDelete(id)
    \/ ~LocalBuild /\ SpendingSettles

SpecSorted == InitSorted /\ [][NextSorted]_vars

\* the list the spending page shows
ShownTransactions == IF LocalBuild THEN transactions ELSE spending.transactions

\* C28: in the list of the spending page no transaction stands before one of a later date
C28_NewestFirst ==
    \A i, j \in 1 .. Len(ShownTransactions) :
        i < j => ShownTransactions[i].date >= ShownTransactions[j].date

\* a transaction was added whose date is earlier than that of the one already listed:
\* the sort has moved it behind
C28_Witness ==
    /\ LocalBuild
    /\ Len(transactions) = 2
    /\ transactions[1].id = 1
    /\ transactions[2].id = 2
    /\ transactions[1].date > transactions[2].date
    /\ toast = Toast("Transaction Added", "default", 0, None, 0)

====
